---- MODULE Spec2Model ----
(***************************************************************************)
(* A model of the prompt-enhancement pipeline: the structured output       *)
(* recoverer (gemini_client.py), the intent router and threshold policy    *)
(* (intent_classifier.py), the self-refine loop (rewriter.py), the         *)
(* judges (judge.py), the pipeline (answerer.py), the comparison store     *)
(* (db.py, app.py) and the workbook lock (excel_logger.py).                *)
(*                                                                         *)
(* Texts handled by the recoverer are sequences of one-character strings.  *)
(* Each component has its own variables and its own specification; the     *)
(* variables of the other components stay at their idle values.            *)
(***************************************************************************)
EXTENDS Integers, Sequences, FiniteSets, TLC

VARIABLES
    txt,        \* recoverer: the text handed to _safe_json_load
    recPc,      \* recoverer: "call" | "returned" | "raised"
    loaded,     \* recoverer: what _safe_json_load produced
    text,       \* router: the text handed to classify_intent (a sequence of tokens)
    allow_llm,  \* router: the fallback flag
    clsPc,      \* router: "call" | "returned" | "raised"
    genData,    \* router: what generate_json did in this call, if it was called
    genCalls,   \* router: generation calls made by classify_intent
    intent,     \* router: the IntentResult returned
    polIntent,  \* policy: the IntentResult handed to choose_rewrite_threshold
    polPc,      \* policy: "call" | "returned"
    thr,        \* policy: the threshold returned
    original_prompt,    \* loop: the arguments of self_refine_rewrite
    rewrite_threshold,
    max_rounds,
    mode,
    refPc,      \* loop: "loop" | "rewrite" | "revise" | "revising" | "done" | "raised"
    round,      \* loop: iterations started (i + 1 inside an iteration)
    current,    \* loop: the current text
    crit,       \* loop: the critique of the iteration under way
    candidate,  \* loop: what rewrite_prompt returned in this iteration
    trace,      \* loop: the trace
    callLog,    \* loop: the generation calls made, in order
    final,      \* loop: the text returned
    exit,       \* loop: "CONVERGED" (break) | "EXHAUSTED" (range ran out)
    onceArgs,   \* loop: the arguments of the call of rewrite_once in progress
    judIn,      \* judge: the arguments (query, resp_x, resp_y)
    judPc,      \* judge: "first" | "second" | "done"
    verdict,    \* judge: what the first call returned
    verdict2,   \* judge: what a later call with the same arguments returned
    service,    \* judge: the state of the generation service, "up" | "down"
    serviceAtFirst, \* judge: the state of the service when the first call was made
    credential,  \* offline use: GEMINI_API_KEY in the environment, "set" or "unset"
    offIn,  \* offline use: the arguments of heuristic_judge_pair
    offPc,  \* offline use: "import", "loaded", "import_failed", "returned"
    offCalls,  \* offline use: generation calls made through the judge module
    offVerdict, \* offline use: the verdict returned
    gjData,  \* generative judge: what generate_json did in this call
    gjPc,  \* generative judge: "call", "returned", "raised"
    gjExc,  \* generative judge: the type of the exception that left judge_pair
    gjResult, \* generative judge: the JudgeResult returned
    critIn,  \* critique: the mapping generate_json handed to critique_prompt
    critPc,  \* critique: "call", "returned"
    critOut, \* critique: the CritiqueResult returned
    rtJ,  \* round trip: a well-formed JSON object text
    rtKind,  \* round trip: how the object is wrapped, "fence" or "prose"
    rtText,  \* round trip: the object inside its wrapping
    rtPc,  \* round trip: "alone", "wrapped", "done"
    rtAlone,  \* round trip: what _safe_json_load returned for the object alone
    rtWrapped, \* round trip: what _safe_json_load returned for the wrapped object
    rows,  \* store: the rows of table comparisons
    clock,  \* store: time.time() in whole seconds
    runs,  \* app: comparisons run so far (each gets a fresh uuid4)
    last_result,  \* app: the comparison_id in st.session_state["last_result"]
    saved_ids,  \* app: st.session_state["saved_ids"]
    last_submit_ts, \* app: st.session_state["last_submit_ts"]
    plQuery,  \* pipeline: the query handed to run_pipeline
    variant,  \* pipeline: the variant, a sequence of characters
    plPc,  \* pipeline: "call" | "critique" | "refine" | "answer" | "returned" | "raised"
    plRoute,  \* pipeline: the route of classify_intent(q)
    enhance_mode,  \* pipeline: "NONE" | "LIGHT" | "FULL"
    final_prompt,  \* pipeline: the prompt that is answered
    plTrace,  \* pipeline: the trace, NoTrace when there is none
    loopCalls,  \* pipeline: the modes self_refine_rewrite was called with
    plOut, \* pipeline: the PipelineOutput returned
    fpRoute,  \* float policy: the route of the verdict
    fpConf,  \* float policy: two confidences after _clamp01, in units of 2^-MantissaBits, the lower first
    fpPc,  \* float policy: "lower" | "higher" | "done"
    fpRounded,  \* float policy: the value of round() in each call
    fpThr, \* float policy: what each call returned
    lockFile,  \* logger: whether the file path + ".lock" exists
    workbook,  \* logger: the workbook on disk, as its numbers of rows and of ratings
    xlPc,  \* logger: each caller at "idle" | "call" | "load" | "write" | "release" | "returned" | "raised"
    xlOp,  \* logger: the function each caller runs
    wb,  \* logger: the workbook each caller has in memory
    xlExc,  \* logger: the exception each caller carries, "" for none
    xlCalls  \* logger: the calls begun so far

recVars == <<txt, recPc, loaded>>

clsVars == <<text, allow_llm, clsPc, genData, genCalls, intent>>

polVars == <<polIntent, polPc, thr>>

refVars == <<original_prompt, rewrite_threshold, max_rounds, mode, refPc, round,
             current, crit, candidate, trace, callLog, final, exit, onceArgs>>

judVars == <<judIn, judPc, verdict, verdict2, service, serviceAtFirst>>

offVars == <<credential, offIn, offPc, offCalls, offVerdict>>

gjVars == <<gjData, gjPc, gjExc, gjResult>>

crtVars == <<critIn, critPc, critOut>>

rtVars == <<rtJ, rtKind, rtText, rtPc, rtAlone, rtWrapped>>

dbVars == <<rows, clock, runs, last_result, saved_ids, last_submit_ts>>

plVars == <<plQuery, variant, plPc, plRoute, enhance_mode, final_prompt, plTrace, loopCalls, plOut>>

fpVars == <<fpRoute, fpConf, fpPc, fpRounded, fpThr>>

xlVars == <<lockFile, workbook, xlPc, xlOp, wb, xlExc, xlCalls>>

vars == <<recVars, clsVars, polVars, refVars, judVars, offVars, gjVars, crtVars, rtVars, dbVars, plVars, fpVars, xlVars>>

\* what a step of one component leaves alone
recOthers == <<clsVars, polVars, refVars, judVars, offVars, gjVars, crtVars, rtVars, dbVars, plVars, fpVars, xlVars>>
clsOthers == <<recVars, polVars, refVars, judVars, offVars, gjVars, crtVars, rtVars, dbVars, plVars, fpVars, xlVars>>
polOthers == <<recVars, clsVars, refVars, judVars, offVars, gjVars, crtVars, rtVars, dbVars, plVars, fpVars, xlVars>>
refOthers == <<recVars, clsVars, polVars, judVars, offVars, gjVars, crtVars, rtVars, dbVars, plVars, fpVars, xlVars>>
judOthers == <<recVars, clsVars, polVars, refVars, offVars, gjVars, crtVars, rtVars, dbVars, plVars, fpVars, xlVars>>
offOthers == <<recVars, clsVars, polVars, refVars, judVars, gjVars, crtVars, rtVars, dbVars, plVars, fpVars, xlVars>>
gjOthers == <<recVars, clsVars, polVars, refVars, judVars, offVars, crtVars, rtVars, dbVars, plVars, fpVars, xlVars>>
crtOthers == <<recVars, clsVars, polVars, refVars, judVars, offVars, gjVars, rtVars, dbVars, plVars, fpVars, xlVars>>
rtOthers == <<recVars, clsVars, polVars, refVars, judVars, offVars, gjVars, crtVars, dbVars, plVars, fpVars, xlVars>>
dbOthers == <<recVars, clsVars, polVars, refVars, judVars, offVars, gjVars, crtVars, rtVars, plVars, fpVars, xlVars>>
plOthers == <<recVars, clsVars, polVars, refVars, judVars, offVars, gjVars, crtVars, rtVars, dbVars, fpVars, xlVars>>
fpOthers == <<recVars, clsVars, polVars, refVars, judVars, offVars, gjVars, crtVars, rtVars, dbVars, plVars, xlVars>>
xlOthers == <<recVars, clsVars, polVars, refVars, judVars, offVars, gjVars, crtVars, rtVars, dbVars, plVars, fpVars>>

---------------------------------------------------------------------------
(* Bounds of the model *)

\* longest exhaustively enumerated recoverer input
MaxCore == 3
\* nesting depth at which the interpreter's recursion guard trips (scaled down)
RecursionLimit == 3
\* longest exhaustively enumerated router input, in tokens
MaxTextLen == 3
\* largest round budget handed to the self-refine loop
MaxRounds == 2

---------------------------------------------------------------------------
(* Characters and elementary string operations *)

\* the fence character (the grave accent of the source, written "~" here)
BQ == "~"
DQ == "\""
NL == "\n"
SP == " "

\* str.strip() / the JSON scanner's whitespace, restricted to the alphabet
Whitespace == {SP, NL}

Alphabet == {"{", "}", "[", "]", DQ, ":", ",", "a", "1", SP, NL, BQ}

Min2(a, b) == IF a <= b THEN a ELSE b

Max2(a, b) == IF a >= b THEN a ELSE b

\* s[a:b] of Python, with 1-based inclusive positions a..b
Slice(s, a, b) == IF a > b THEN <<>> ELSE SubSeq(s, a, b)

\* str.lstrip()
LStrip(s) ==
    LET idx == {i \in 1..Len(s) : s[i] \notin Whitespace}
    IN  IF idx = {} THEN <<>>
        ELSE Slice(s, CHOOSE i \in idx : \A j \in idx : i <= j, Len(s))

\* str.rstrip()
RStrip(s) ==
    LET idx == {i \in 1..Len(s) : s[i] \notin Whitespace}
    IN  IF idx = {} THEN <<>>
        ELSE Slice(s, 1, CHOOSE i \in idx : \A j \in idx : i >= j)

\* str.strip()
Strip(s) == LStrip(RStrip(s))

\* str.find(c): the first position of c, 0 when absent (Python's -1)
Find(s, c) ==
    LET idx == {i \in 1..Len(s) : s[i] = c}
    IN  IF idx = {} THEN 0 ELSE CHOOSE i \in idx : \A j \in idx : i <= j

Fence == <<BQ, BQ, BQ>>

StartsWith(s, p) == Len(s) >= Len(p) /\ SubSeq(s, 1, Len(p)) = p

EndsWith(s, p) == Len(s) >= Len(p) /\ SubSeq(s, Len(s) - Len(p) + 1, Len(s)) = p

---------------------------------------------------------------------------
(* gemini_client.py: _strip_code_fences *)

\* lines 41-43: drop the trailing fence
StripTrailingFence(r2, s2) ==
    IF EndsWith(r2, Fence) THEN Strip(Slice(r2, 1, Len(r2) - 3)) ELSE s2

\* the opening fence line left in place
FirstLineKept(s1, first_newline) == s1

\* lines 37-40: drop the first line of a text that starts with a fence
StripFirstLine(s1, first_newline) ==
    IF first_newline # 0 THEN Slice(s1, first_newline + 1, Len(s1)) ELSE s1

\* lines 41-44, on the text without its first line
StripTail(s2) == Strip(StripTrailingFence(RStrip(s2), s2))

\* lines 36-44, on the stripped text
StripFencesOf(s1) ==
    IF StartsWith(s1, Fence)
    THEN StripTail(StripFirstLine(s1, Find(s1, NL)))
    ELSE Strip(s1)

strip_code_fences(s0) == StripFencesOf(Strip(s0))

---------------------------------------------------------------------------
(* gemini_client.py: _extract_json_object *)

Openers == {"{", "["}
Closers == {"}", "]"}

Matches(open_ch, ch) == (open_ch = "{" /\ ch = "}") \/ (open_ch = "[" /\ ch = "]")

\* The scan of lines 70-83 from position idx with the given stack: the
\* position at which the stack empties after a matching closer, 0 if never.
RECURSIVE ScanDelims(_, _, _)
ScanDelims(s, idx, stack) ==
    IF idx > Len(s) THEN 0
    ELSE LET ch == s[idx]
         IN  IF ch \in Openers
             THEN ScanDelims(s, idx + 1, Append(stack, ch))
             ELSE IF ch \in Closers
             THEN IF stack = <<>>
                  THEN ScanDelims(s, idx + 1, stack)
                  ELSE LET open_ch == stack[Len(stack)]
                           popped == SubSeq(stack, 1, Len(stack) - 1)
                       IN  IF ~Matches(open_ch, ch)
                           THEN ScanDelims(s, idx + 1, popped)
                           ELSE IF popped = <<>>
                           THEN idx
                           ELSE ScanDelims(s, idx + 1, popped)
             ELSE ScanDelims(s, idx + 1, stack)

\* lines 69-86: the candidate that starts at start and ends where the scan
\* stops (stop = 0: the scan ran off the end)
CandidateFrom(s, start, stop) ==
    IF stop # 0 THEN Strip(Slice(s, start, stop)) ELSE Strip(Slice(s, start, Len(s)))

\* lines 63-67: min(start_candidates), 0 when there is none
MinStart(start_candidates) ==
    IF start_candidates = {} THEN 0
    ELSE CHOOSE i \in start_candidates : \A j \in start_candidates : i <= j

\* lines 60-86, from the earliest opener
ScanFrom(s, start) ==
    IF start = 0 THEN s ELSE CandidateFrom(s, start, ScanDelims(s, start, <<>>))

\* lines 53-86, on the text without its fences
ExtractFrom(s) ==
    IF s = <<>> THEN <<>>
    ELSE IF (StartsWith(s, <<"{">>) /\ EndsWith(s, <<"}">>))
            \/ (StartsWith(s, <<"[">>) /\ EndsWith(s, <<"]">>))
    THEN s
    ELSE ScanFrom(s, MinStart({Find(s, "{"), Find(s, "[")} \ {0}))

extract_json_object(s0) == ExtractFrom(strip_code_fences(s0))

---------------------------------------------------------------------------
(* json.loads, as _safe_json_load uses it (gemini_client.py line 101), on   *)
(* the alphabet above: objects, arrays, strings without escapes, numbers    *)
(* made of the digit 1.  A parsed value is kept as its canonical text (no   *)
(* insignificant whitespace, a repeated key keeping its first position and  *)
(* its last value, as a Python dict does).                                  *)

Digits == {"1"}

Ok(val, pos) == [err |-> "none", val |-> val, pos |-> pos]

\* json.JSONDecodeError
DecodeError == [err |-> "decode", val |-> <<>>, pos |-> 0]

\* RecursionError, raised by the scanner's recursion guard
RecursionError == [err |-> "recursion", val |-> <<>>, pos |-> 0]

\* the scanner's whitespace skip: the first position >= i holding no whitespace
SkipWs(s, i) ==
    LET idx == {j \in i..Len(s) : s[j] \notin Whitespace}
    IN  IF idx = {} THEN Len(s) + 1
        ELSE CHOOSE j \in idx : \A k \in idx : j <= k

\* scanstring from the position after the opening quote: a control character
\* (the newline) or the end of the text before the closing quote is an error
ScanString(s, i) ==
    LET close == {j \in i..Len(s) : s[j] = DQ}
    IN  IF close = {} THEN DecodeError
        ELSE LET j == CHOOSE k \in close : \A m \in close : k <= m
             IN  IF \E k \in i..(j - 1) : s[k] = NL
                 THEN DecodeError
                 ELSE Ok(<<DQ>> \o Slice(s, i, j - 1) \o <<DQ>>, j + 1)

\* a number: the longest run of digits from i
ScanNumber(s, i) ==
    LET stop == {j \in i..Len(s) : s[j] \notin Digits}
        end  == IF stop = {} THEN Len(s) + 1
                ELSE CHOOSE j \in stop : \A k \in stop : j <= k
    IN  Ok(Slice(s, i, end - 1), end)

\* dict[key] = value on an ordered list of members
PutMember(acc, k, v) ==
    IF \E i \in 1..Len(acc) : acc[i].k = k
    THEN [i \in 1..Len(acc) |-> IF acc[i].k = k THEN [k |-> k, v |-> v] ELSE acc[i]]
    ELSE Append(acc, [k |-> k, v |-> v])

RECURSIVE JoinMembers(_)
JoinMembers(acc) ==
    IF acc = <<>> THEN <<>>
    ELSE acc[1].k \o <<":">> \o acc[1].v
         \o (IF Len(acc) > 1 THEN <<",">> ELSE <<>>) \o JoinMembers(Tail(acc))

RECURSIVE JoinElements(_)
JoinElements(acc) ==
    IF acc = <<>> THEN <<>>
    ELSE acc[1] \o (IF Len(acc) > 1 THEN <<",">> ELSE <<>>) \o JoinElements(Tail(acc))

RECURSIVE ParseValue(_, _, _), ParseMembers(_, _, _, _), ParseElements(_, _, _, _)

\* scan_once at position i, inside depth open containers
ParseValue(s, i, depth) ==
    IF i > Len(s) THEN DecodeError
    ELSE IF s[i] = DQ THEN ScanString(s, i + 1)
    ELSE IF s[i] \in Digits THEN ScanNumber(s, i)
    ELSE IF s[i] \in Openers
    THEN IF depth + 1 > RecursionLimit THEN RecursionError
         ELSE LET j == SkipWs(s, i + 1)
              IN  IF j > Len(s) THEN DecodeError
                  ELSE IF s[i] = "{"
                  THEN IF s[j] = "}" THEN Ok(<<"{", "}">>, j + 1)
                       ELSE ParseMembers(s, j, depth + 1, <<>>)
                  ELSE IF s[j] = "]" THEN Ok(<<"[", "]">>, j + 1)
                       ELSE ParseElements(s, j, depth + 1, <<>>)
    ELSE DecodeError

\* the members of an object from position j, which must hold a key
ParseMembers(s, j, depth, acc) ==
    IF j > Len(s) \/ s[j] # DQ THEN DecodeError
    ELSE LET key == ScanString(s, j + 1)
         IN  IF key.err # "none" THEN key
             ELSE LET c == SkipWs(s, key.pos)
                  IN  IF c > Len(s) \/ s[c] # ":" THEN DecodeError
                      ELSE LET v == ParseValue(s, SkipWs(s, c + 1), depth)
                           IN  IF v.err # "none" THEN v
                               ELSE LET m   == SkipWs(s, v.pos)
                                        now == PutMember(acc, key.val, v.val)
                                    IN  IF m > Len(s) THEN DecodeError
                                        ELSE IF s[m] = "}"
                                        THEN Ok(<<"{">> \o JoinMembers(now) \o <<"}">>, m + 1)
                                        ELSE IF s[m] # "," THEN DecodeError
                                        ELSE ParseMembers(s, SkipWs(s, m + 1), depth, now)

\* the elements of an array from position j, which must hold a value
ParseElements(s, j, depth, acc) ==
    LET v == ParseValue(s, j, depth)
    IN  IF v.err # "none" THEN v
        ELSE LET m   == SkipWs(s, v.pos)
                 now == Append(acc, v.val)
             IN  IF m > Len(s) THEN DecodeError
                 ELSE IF s[m] = "]"
                 THEN Ok(<<"[">> \o JoinElements(now) \o <<"]">>, m + 1)
                 ELSE IF s[m] # "," THEN DecodeError
                 ELSE ParseElements(s, SkipWs(s, m + 1), depth, now)

\* json.loads(s): one value, whitespace around it, nothing after it
json_loads(s) ==
    LET r == ParseValue(s, SkipWs(s, 1), 0)
    IN  IF r.err # "none" THEN r
        ELSE IF SkipWs(s, r.pos) <= Len(s) THEN DecodeError
        ELSE r

\* isinstance(parsed, dict), read off the canonical text
IsDict(val) == val # <<>> /\ val[1] = "{"

---------------------------------------------------------------------------
(* gemini_client.py: _safe_json_load *)

\* raw[:4000]
RawTextCap == 4000

NoResult == [kind |-> "none", keys |-> {}, val |-> <<>>, raw_text |-> <<>>]

\* The result: the parsed mapping ("parsed": val is its canonical text), the
\* wrapper {"data": parsed} ("data"), the error record ("error"), or an
\* exception that leaves the function ("raised": keys holds its type).
\* Lines 100-110: what becomes of json.loads' outcome
LoadOutcome(raw, parsed) ==
    IF parsed.err = "none"
    THEN IF IsDict(parsed.val)
         THEN [kind |-> "parsed", keys |-> {"(parsed keys)"},
               val |-> parsed.val, raw_text |-> <<>>]
         ELSE [kind |-> "data", keys |-> {"data"},
               val |-> parsed.val, raw_text |-> <<>>]
    ELSE IF parsed.err = "decode"
    THEN [kind |-> "error", keys |-> {"error", "raw_text"}, val |-> <<>>,
          raw_text |-> Slice(raw, 1, Min2(Len(raw), RawTextCap))]
    ELSE [kind |-> "raised", keys |-> {"RecursionError"}, val |-> <<>>,
          raw_text |-> <<>>]

\* lines 95-110, on the stripped text
LoadRaw(raw) ==
    IF raw = <<>>
    THEN [kind |-> "error", keys |-> {"error", "raw_text"}, val |-> <<>>,
          raw_text |-> <<>>]
    ELSE LoadOutcome(raw, json_loads(extract_json_object(raw)))

safe_json_load(t) == LoadRaw(Strip(t))

---------------------------------------------------------------------------
(* The texts the generation service may hand to the recoverer *)

\* what may precede the JSON: nothing, prose, a fence line (bare or tagged), a stray opener
Prefixes ==
    { <<>>,
      <<"a", SP>>,
      <<BQ, BQ, BQ, NL>>,
      <<BQ, BQ, BQ, "a", NL>>,
      <<"a", "{", SP>> }

\* JSON texts: well formed, nested beyond the recursion guard, truncated, malformed
Bodies ==
    { <<"{", DQ, "a", DQ, ":", "1", "}">>,
      <<"{", DQ, "a", DQ, ":", DQ, "}", DQ, "}">>,
      <<"{", DQ, "a", DQ, ":", "[", "1", ",", "1", "]", "}">>,
      <<"[", "1", "]">>,
      <<DQ, "a", DQ>>,
      <<"{", DQ, "a", DQ, ":", "1", ",", DQ, "a", DQ, ":", "1", "1", "}">>,
      <<"[", "[", "[", "[", "1", "]", "]", "]", "]">>,
      <<"[", "[", "[", "[", "[">>,
      <<"{", DQ, "a", DQ, ":", "{", DQ, "a", DQ, ":", "{", DQ, "a", DQ, ":", "{", DQ, "a", DQ, ":", "1", "}", "}", "}", "}">>,
      <<"{", DQ, "a", DQ, ":", "1">>,
      <<"{", "]", DQ, "a", DQ, ":", "1", "}">>,
      <<"{", DQ, "a", DQ, ":", "1", ",", "}">>,
      <<"{", SP, DQ, "a", DQ, SP, ":", SP, "1", SP, "}">>,
      <<"a">> }

\* what may follow the JSON: nothing, prose, a closing fence, stray closers
Suffixes ==
    { <<>>,
      <<SP, "a">>,
      <<NL, BQ, BQ, BQ>>,
      <<"}">>,
      <<SP, "]">> }

\* every text over the alphabet of length at most n
RECURSIVE TextsUpTo(_)
TextsUpTo(n) ==
    IF n = 0 THEN {<<>>}
    ELSE LET shorter == TextsUpTo(n - 1)
         IN  shorter \cup {Append(t, c) : t \in {u \in shorter : Len(u) = n - 1}, c \in Alphabet}

RecoverInputs ==
    TextsUpTo(MaxCore) \cup {p \o b \o x : p \in Prefixes, b \in Bodies, x \in Suffixes}

---------------------------------------------------------------------------
(* The recoverer as a state machine: one call of _safe_json_load *)

SafeJsonLoad ==
    /\ recPc = "call"
    /\ loaded' = safe_json_load(txt)
    /\ recPc' = IF loaded'.kind = "raised" THEN "raised" ELSE "returned"
    /\ UNCHANGED txt
    /\ UNCHANGED recOthers

NextRecover == SafeJsonLoad

---------------------------------------------------------------------------
(* intent_classifier.py: texts.  A text is a sequence of tokens: words of   *)
(* the vocabularies the rules look for, a neutral word, the question mark,  *)
(* and runs of blanks or a line break.  Adjacent tokens are one character   *)
(* apart.                                                                   *)

WS == "_"

GreetingWords == {"hi"}
TechWords     == {"error"}
CreativeWords == {"story"}
TaskWords     == {"write"}
WhWords       == {"what"}

Tokens == GreetingWords \cup TechWords \cup CreativeWords \cup TaskWords
          \cup WhWords \cup {"cat", "?", WS, NL}

Blank == {WS, NL}

TokenLen(w) ==
    CASE w = "hi" -> 2
      [] w = "cat" -> 3
      [] w = "what" -> 4
      [] w \in {"error", "story", "write"} -> 5
      [] OTHER -> 1

\* str.strip() on a token sequence
StripText(t) ==
    LET idx == {i \in 1..Len(t) : t[i] \notin Blank}
    IN  IF idx = {} THEN <<>>
        ELSE Slice(t, CHOOSE i \in idx : \A j \in idx : i <= j,
                      CHOOSE i \in idx : \A j \in idx : i >= j)

RECURSIVE SumLen(_)
SumLen(t) == IF t = <<>> THEN 0 ELSE TokenLen(t[1]) + SumLen(Tail(t))

\* len(t)
CharLen(t) == IF t = <<>> THEN 0 ELSE SumLen(t) + Len(t) - 1

\* len(t.split())
WordCount(t) == Cardinality({i \in 1..Len(t) : t[i] \notin Blank})

\* _SOCIAL_PAT.match(t): a greeting first, and no line break before the end
SocialMatch(t) == t # <<>> /\ t[1] \in GreetingWords /\ \A i \in 1..Len(t) : t[i] # NL

\* pattern.search(t) for a keyword pattern
Search(words, t) == \E i \in 1..Len(t) : t[i] \in words

---------------------------------------------------------------------------
(* intent_classifier.py: IntentResult, _rule_route *)

Routes == {"SOCIAL", "QA", "TASK", "TECH", "CREATIVE"}

\* confidences are kept in hundredths
ConfScale == 100

\* a reason fixed by the code
Literal(id) == [kind |-> "literal", id |-> id, chars |-> <<>>]

\* f"llm classify failed: {type(e).__name__}"
FailedReason(type) == [kind |-> "literal", id |-> "llm classify failed", chars |-> <<type>>]

\* a reason taken from the generator
FromGenerator(chars) == [kind |-> "llm", id |-> "", chars |-> chars]

IntentResult(route, confidence, reason) ==
    [route |-> route, confidence |-> confidence, reason |-> reason]

\* _rule_route returning None
NoVerdict == IntentResult("None", 0, Literal("None"))

\* the rules with the task verbs looked for before the technical keywords
RuleOfTaskFirst(t) ==
    IF t = <<>> THEN IntentResult("SOCIAL", 60, Literal("empty/blank"))
    ELSE IF CharLen(t) <= 12 /\ SocialMatch(t)
    THEN IntentResult("SOCIAL", 95, Literal("short greeting"))
    ELSE IF SocialMatch(t) /\ WordCount(t) <= 8
    THEN IntentResult("SOCIAL", 90, Literal("greeting/small-talk"))
    ELSE IF Search(TaskWords, t)
    THEN IntentResult("TASK", 70, Literal("task verb"))
    ELSE IF Search(TechWords, t)
    THEN IntentResult("TECH", 85, Literal("tech keywords"))
    ELSE IF Search(CreativeWords, t)
    THEN IntentResult("CREATIVE", 75, Literal("creative keywords"))
    ELSE IF Search({"?"}, t) \/ Search(WhWords, t)
    THEN IntentResult("QA", 65, Literal("question form"))
    ELSE NoVerdict

RuleOf(t) ==
    IF t = <<>> THEN IntentResult("SOCIAL", 60, Literal("empty/blank"))
    ELSE IF CharLen(t) <= 12 /\ SocialMatch(t)
    THEN IntentResult("SOCIAL", 95, Literal("short greeting"))
    ELSE IF SocialMatch(t) /\ WordCount(t) <= 8
    THEN IntentResult("SOCIAL", 90, Literal("greeting/small-talk"))
    ELSE IF Search(TechWords, t)
    THEN IntentResult("TECH", 85, Literal("tech keywords"))
    ELSE IF Search(CreativeWords, t)
    THEN IntentResult("CREATIVE", 75, Literal("creative keywords"))
    ELSE IF Search(TaskWords, t)
    THEN IntentResult("TASK", 70, Literal("task verb"))
    ELSE IF Search({"?"}, t) \/ Search(WhWords, t)
    THEN IntentResult("QA", 65, Literal("question form"))
    ELSE NoVerdict

rule_route(t0) == RuleOf(StripText(t0))

---------------------------------------------------------------------------
(* The JSON values a generator may put in a field.  k is the value's kind:  *)
(* "missing" (no such key), "str" (s: its characters), "num" (n: a finite   *)
(* number, in hundredths), "huge" (an integer beyond the range of a float,  *)
(* n: its sign), "inf" (n: its sign), "nan", "bool" (n: 0 or 1), "null",    *)
(* "list" (the empty list).                                                 *)

Raw(k, str, n) == [k |-> k, s |-> str, n |-> n]

Missing == Raw("missing", <<>>, 0)

Str(chars) == Raw("str", chars, 0)

Num(n) == Raw("num", <<>>, n)

LowerCase == <<"a", "b", "c", "d", "e", "f", "g", "h", "i", "j", "k", "l", "m",
               "n", "o", "p", "q", "r", "s", "t", "u", "v", "w", "x", "y", "z">>
UpperCase == <<"A", "B", "C", "D", "E", "F", "G", "H", "I", "J", "K", "L", "M",
               "N", "O", "P", "Q", "R", "S", "T", "U", "V", "W", "X", "Y", "Z">>

\* str.upper(), one character
UpperChar(c) ==
    IF \E i \in 1..Len(LowerCase) : LowerCase[i] = c
    THEN UpperCase[CHOOSE i \in 1..Len(LowerCase) : LowerCase[i] = c]
    ELSE c

\* str.upper()
Upper(chars) == [i \in 1..Len(chars) |-> UpperChar(chars[i])]

DigitChars == <<"0", "1", "2", "3", "4", "5", "6", "7", "8", "9">>

IsDigit(c) == \E i \in 1..10 : DigitChars[i] = c

DigitVal(c) == (CHOOSE i \in 1..10 : DigitChars[i] = c) - 1

\* str(x) of a value present in the mapping
StrOf(x) ==
    CASE x.k = "str"  -> x.s
      [] x.k = "null" -> <<"N", "o", "n", "e">>
      [] x.k = "bool" -> IF x.n = 1 THEN <<"T", "r", "u", "e">>
                         ELSE <<"F", "a", "l", "s", "e">>
      [] x.k = "num" /\ x.n % ConfScale = 0 /\ x.n \div ConfScale \in 0..9
                      -> <<DigitChars[(x.n \div ConfScale) + 1]>>
      [] OTHER -> <<"[", "]">>

\* the chars of a route name
RouteChars(r) ==
    CASE r = "SOCIAL"   -> <<"S", "O", "C", "I", "A", "L">>
      [] r = "QA"       -> <<"Q", "A">>
      [] r = "TASK"     -> <<"T", "A", "S", "K">>
      [] r = "TECH"     -> <<"T", "E", "C", "H">>
      [] r = "CREATIVE" -> <<"C", "R", "E", "A", "T", "I", "V", "E">>

\* the normalised text returned without the membership test
ReturnsAnyRoute(chars) ==
    IF \E r \in Routes : RouteChars(r) = chars
    THEN CHOOSE r \in Routes : RouteChars(r) = chars
    ELSE "OTHER"

\* s if s in _ALLOWED else "QA", on the normalised characters
AllowedOrQA(chars) ==
    IF \E r \in Routes : RouteChars(r) = chars
    THEN CHOOSE r \in Routes : RouteChars(r) = chars
    ELSE "QA"

\* _normalize_route(data.get("route", "QA"))
normalize_route(x) ==
    IF x.k = "missing" THEN "QA" ELSE AllowedOrQA(Upper(Strip(StrOf(x))))

\* float(x): ok = FALSE when float() raises; otherwise nan, or inf = -1/1, or
\* the finite value v in hundredths
FloatRaises == [ok |-> FALSE, nan |-> FALSE, inf |-> 0, v |-> 0]

Finite(v) == [ok |-> TRUE, nan |-> FALSE, inf |-> 0, v |-> v]

Infinite(sign) == [ok |-> TRUE, nan |-> FALSE, inf |-> sign, v |-> 0]

NaN == [ok |-> TRUE, nan |-> TRUE, inf |-> 0, v |-> 0]

\* float() of an unsigned decimal text: d, d.d or d.dd
UnsignedFloat(c) ==
    IF Len(c) = 1 /\ IsDigit(c[1]) THEN Finite(ConfScale * DigitVal(c[1]))
    ELSE IF Len(c) = 3 /\ IsDigit(c[1]) /\ c[2] = "." /\ IsDigit(c[3])
    THEN Finite(ConfScale * DigitVal(c[1]) + 10 * DigitVal(c[3]))
    ELSE IF Len(c) = 4 /\ IsDigit(c[1]) /\ c[2] = "." /\ IsDigit(c[3]) /\ IsDigit(c[4])
    THEN Finite(ConfScale * DigitVal(c[1]) + 10 * DigitVal(c[3]) + DigitVal(c[4]))
    ELSE IF c = <<"n", "a", "n">> THEN NaN
    ELSE IF c = <<"i", "n", "f">> THEN Infinite(1)
    ELSE FloatRaises

Negated(f) == [f EXCEPT !.v = 0 - f.v, !.inf = 0 - f.inf]

\* float() of a text: blanks around it are dropped, a sign may lead it
FloatOfStripped(c) ==
    IF c # <<>> /\ c[1] = "-" THEN Negated(UnsignedFloat(Tail(c)))
    ELSE UnsignedFloat(c)

FloatOf(x) ==
    CASE x.k = "num"  -> Finite(x.n)
      [] x.k = "bool" -> Finite(ConfScale * x.n)
      [] x.k = "inf"  -> Infinite(x.n)
      [] x.k = "nan"  -> NaN
      [] x.k = "str"  -> FloatOfStripped(Strip(x.s))
      [] OTHER -> FloatRaises

\* the clamp without the x != x test: max(0.0, min(1.0, nan)) is 1.0
ClampFloatKeepsNaN(f, default) ==
    IF ~f.ok THEN default
    ELSE IF f.nan \/ f.inf = 1 THEN ConfScale
    ELSE IF f.inf = -1 THEN 0
    ELSE Max2(0, Min2(ConfScale, f.v))

\* lines 48-50, on what float() returned
ClampFloat(f, default) ==
    IF ~f.ok \/ f.nan THEN default
    ELSE IF f.inf = 1 THEN ConfScale
    ELSE IF f.inf = -1 THEN 0
    ELSE Max2(0, Min2(ConfScale, f.v))

\* _clamp01
clamp01(x, default) == ClampFloat(FloatOf(x), default)

---------------------------------------------------------------------------
(* intent_classifier.py: classify_intent *)

\* what generate_json may do when classify_intent calls it: raise (a
\* transport failure, or an exception escaping _safe_json_load), or return
\* the mapping _safe_json_load built: an error record, or a mapping whose
\* fields hold whatever the generator wrote
Raised(type) ==
    [kind |-> "raise", exc |-> type, error |-> FALSE,
     route |-> Missing, confidence |-> Missing, reason |-> Missing]

Mapping(error, route, confidence, reason) ==
    [kind |-> "dict", exc |-> "", error |-> error,
     route |-> route, confidence |-> confidence, reason |-> reason]

NotCalled ==
    [kind |-> "none", exc |-> "", error |-> FALSE,
     route |-> Missing, confidence |-> Missing, reason |-> Missing]

RouteRaw ==
    {Missing, Raw("null", <<>>, 0), Num(5 * ConfScale), Raw("list", <<>>, 0)}
    \cup {Str(RouteChars(r)) : r \in Routes}
    \cup {Str(<<"s", "o", "c", "i", "a", "l">>), Str(<<SP, "T", "e", "c", "h", NL>>),
          Str(<<"B", "O", "G", "U", "S">>), Str(<<>>)}

ConfidenceRaw ==
    {Missing, Raw("null", <<>>, 0), Raw("list", <<>>, 0), Raw("nan", <<>>, 0),
     Raw("bool", <<>>, 1), Raw("inf", <<>>, 1), Raw("inf", <<>>, -1),
     Raw("huge", <<>>, 1), Raw("huge", <<>>, -1)}
    \cup {Num(n) : n \in {-50, 0, 30, 100, 150}}
    \cup {Str(<<"0", ".", "7">>), Str(<<SP, "1", ".", "5">>), Str(<<"-", "1">>),
          Str(<<"h", "i", "g", "h">>), Str(<<"n", "a", "n">>), Str(<<>>)}

ReasonRaw == {Missing, Str(<<>>), Str(<<"o", "k">>), Raw("null", <<>>, 0)}

GenJsonOutcomes ==
    {Raised("TransportError"), Raised("RecursionError"),
     Mapping(TRUE, Missing, Missing, Missing)}
    \cup {Mapping(FALSE, r, c, w) : r \in RouteRaw, c \in ConfidenceRaw, w \in ReasonRaw}

\* bool(x) of a field value
Truthy(x) ==
    CASE x.k \in {"missing", "null", "list"} -> FALSE
      [] x.k = "str" -> x.s # <<>>
      [] x.k \in {"num", "bool"} -> x.n # 0
      [] OTHER -> TRUE

\* str(data.get("reason", "") or "llm classified")
ReasonOf(x) == IF Truthy(x) THEN FromGenerator(StrOf(x)) ELSE Literal("llm classified")

\* the fallback reporting a failed call with the confidence of the
\* deterministic default, 0.4
FromFallbackAtDefault(data) ==
    IF data.kind = "raise"
    THEN IntentResult("QA", 40, FailedReason(data.exc))
    ELSE IF data.kind # "dict"
    THEN IntentResult("QA", 40, Literal("llm returned non-dict"))
    ELSE IntentResult(normalize_route(data.route),
                      IF data.confidence.k = "missing" THEN 50
                      ELSE clamp01(data.confidence, 50),
                      ReasonOf(data.reason))

\* lines 103-119: the result built from what generate_json did
FromFallback(data) ==
    IF data.kind = "raise"
    THEN IntentResult("QA", 30, FailedReason(data.exc))
    ELSE IF data.kind # "dict"
    THEN IntentResult("QA", 30, Literal("llm returned non-dict"))
    ELSE IntentResult(normalize_route(data.route),
                      IF data.confidence.k = "missing" THEN 50
                      ELSE clamp01(data.confidence, 50),
                      ReasonOf(data.reason))

\* the deterministic stage without the test of allow_llm
WithoutFallbackIgnoringFlag(rule, allow) == IF rule # NoVerdict THEN rule ELSE NoVerdict

\* lines 95-100: the result that needs no generation call, NoVerdict if none
WithoutFallback(rule, allow) ==
    IF rule # NoVerdict THEN rule
    ELSE IF ~allow THEN IntentResult("QA", 40, Literal("default QA (no llm)"))
    ELSE NoVerdict

RECURSIVE TokenSeqsUpTo(_)
TokenSeqsUpTo(n) ==
    IF n = 0 THEN {<<>>}
    ELSE {<<>>} \cup {<<c>> \o t : c \in Tokens, t \in TokenSeqsUpTo(n - 1)}

\* a greeting followed by n neutral words
Greeting(n) == <<"hi">> \o [i \in 1..n |-> "cat"]

ClassifyTexts ==
    TokenSeqsUpTo(MaxTextLen)
    \cup {Greeting(7), Greeting(8), Append(Greeting(7), "error"), Append(Greeting(8), "write")}

\* classify_intent decided by the rules, or by the deterministic default
ClassifyByRule ==
    /\ clsPc = "call"
    /\ WithoutFallback(rule_route(text), allow_llm) # NoVerdict
    /\ intent' = WithoutFallback(rule_route(text), allow_llm)
    /\ clsPc' = "returned"
    /\ UNCHANGED <<text, allow_llm, genData, genCalls>>
    /\ UNCHANGED clsOthers

\* classify_intent falling back to the generation service
ClassifyByFallback ==
    /\ clsPc = "call"
    /\ WithoutFallback(rule_route(text), allow_llm) = NoVerdict
    /\ \E data \in GenJsonOutcomes :
          /\ genData' = data
          /\ intent' = FromFallback(data)
    /\ genCalls' = genCalls + 1
    /\ clsPc' = "returned"
    /\ UNCHANGED <<text, allow_llm>>
    /\ UNCHANGED clsOthers

NextClassify == ClassifyByRule \/ ClassifyByFallback

---------------------------------------------------------------------------
(* intent_classifier.py: choose_rewrite_threshold *)

base_by_route(route) ==
    CASE route = "SOCIAL"   -> 20
      [] route = "QA"       -> 13
      [] route = "TASK"     -> 15
      [] route = "TECH"     -> 14
      [] route = "CREATIVE" -> 11

min_threshold == 9

\* round(num / den) of Python 3 for num >= 0: to the nearest, a tie to even
RoundHalfEven(num, den) ==
    IF 2 * (num % den) < den THEN num \div den
    ELSE IF 2 * (num % den) > den THEN (num \div den) + 1
    ELSE IF (num \div den) % 2 = 0 THEN num \div den
    ELSE (num \div den) + 1

\* the blend truncated by int() in place of round()
ThresholdTruncated(base, conf) ==
    Max2(4, Min2(20, (base * conf + min_threshold * (ConfScale - conf)) \div ConfScale))

\* lines 147-150, with conf in hundredths
ThresholdAt(base, conf) ==
    Max2(4, Min2(20, RoundHalfEven(base * conf + min_threshold * (ConfScale - conf),
                                   ConfScale)))

choose_rewrite_threshold(i) ==
    ThresholdAt(base_by_route(i.route), clamp01(Num(i.confidence), 50))

ChooseRewriteThreshold ==
    /\ polPc = "call"
    /\ thr' = choose_rewrite_threshold(polIntent)
    /\ polPc' = "returned"
    /\ UNCHANGED polIntent
    /\ UNCHANGED polOthers

NextPolicy == ChooseRewriteThreshold

---------------------------------------------------------------------------
(* rewriter.py: _safe_int, _normalize_critique.  Texts (weakest, edit,     *)
(* reason) are token sequences, as in the router.                          *)

\* an integer too large for a float; int() returns it unchanged
HugeInt == 1000000

\* int(x) for a number in hundredths: truncation towards zero
Truncate(n) == IF n >= 0 THEN n \div ConfScale ELSE 0 - ((0 - n) \div ConfScale)

\* int() of a text: an optionally signed digit, blanks around it dropped
IntOfText(c, default) ==
    IF Len(c) = 1 /\ IsDigit(c[1]) THEN DigitVal(c[1])
    ELSE IF Len(c) = 2 /\ c[1] = "-" /\ IsDigit(c[2]) THEN 0 - DigitVal(c[2])
    ELSE default

\* _safe_int
safe_int(x, default) ==
    CASE x.k = "num"  -> Truncate(x.n)
      [] x.k = "bool" -> x.n
      [] x.k = "huge" -> x.n * HugeInt
      [] x.k = "str"  -> IntOfText(Strip(x.s), default)
      [] OTHER -> default

\* the "scores" field: absent, not a mapping, or a mapping (its items in order)
NoScores == [k |-> "missing", items |-> <<>>]

ScoresNotDict == [k |-> "nondict", items |-> <<>>]

ScoresDict(items) == [k |-> "dict", items |-> items]

Item(axis, v) == [axis |-> axis, v |-> v]

\* lines 42-50: the schema substituted for missing scores
DefaultScores ==
    <<Item("clarity", 0), Item("specificity", 0), Item("constraints", 0),
      Item("context", 0), Item("format", 0)>>

\* lines 32-50
NormalScores(raw_scores) ==
    IF raw_scores.k # "dict" \/ raw_scores.items = <<>> THEN DefaultScores
    ELSE [i \in 1..Len(raw_scores.items) |->
             Item(raw_scores.items[i].axis, safe_int(raw_scores.items[i].v, 0))]

\* min(scores, key=scores.get): the first axis holding the least value
ArgMin(scores) ==
    scores[CHOOSE i \in 1..Len(scores) :
               /\ \A j \in 1..Len(scores) : scores[i].v <= scores[j].v
               /\ \A j \in 1..(i - 1) : scores[j].v > scores[i].v].axis

\* a text field: the value if it is a str, "" otherwise
TextOr(x) == IF x.k = "str" THEN x.s ELSE <<>>

DefaultEdit == <<"Make the prompt clearer and better structured while preserving intent.">>

\* lines 52-54, 64-66, 70
NormalWeakest(x, scores) ==
    IF StripText(TextOr(x)) = <<>> THEN <<ArgMin(scores)>> ELSE StripText(TextOr(x))

\* lines 56-58, 71
NormalEdit(x) == IF StripText(TextOr(x)) = <<>> THEN DefaultEdit ELSE StripText(TextOr(x))

CritiqueResult(scores, weakest, edit, reason) ==
    [scores |-> scores, weakest |-> weakest, edit |-> edit, reason |-> reason]

NoCritique == CritiqueResult(<<>>, <<>>, <<>>, <<>>)

\* what generate_json returned to critique_prompt
CritiqueData(scores, weakest, edit, reason) ==
    [scores |-> scores, weakest |-> weakest, edit |-> edit, reason |-> reason]

normalize_critique(data) ==
    CritiqueResult(NormalScores(data.scores),
                   NormalWeakest(data.weakest, NormalScores(data.scores)),
                   NormalEdit(data.edit),
                   StripText(TextOr(data.reason)))

RECURSIVE SumScores(_)
\* sum((crit.scores or {}).values())
SumScores(scores) == IF scores = <<>> THEN 0 ELSE scores[1].v + SumScores(Tail(scores))

\* the mappings generate_json may hand to critique_prompt: an error record
\* (no field present), a full rubric, a middling one with padded texts, and
\* one whose values are out of range or not numbers
CritiqueOutcomes ==
    { CritiqueData(NoScores, Missing, Missing, Missing),
      CritiqueData(ScoresDict(<<Item("intent", Num(500)), Item("clarity", Num(500)),
                                Item("structure", Num(500)), Item("safety", Num(500))>>),
                   Str(<<"intent">>), Str(<<"No", "edits">>), Str(<<"ok">>)),
      CritiqueData(ScoresDict(<<Item("intent", Num(300)), Item("clarity", Num(200)),
                                Item("structure", Num(400)), Item("safety", Num(500))>>),
                   Str(<<WS, "clarity", WS>>), Str(<<"add", "context", WS>>), Missing),
      CritiqueData(ScoresDict(<<Item("intent", Num(-300)), Item("clarity", Str(<<"4">>)),
                                Item("structure", Raw("null", <<>>, 0)),
                                Item("safety", Num(790))>>),
                   Raw("null", <<>>, 0), Str(<<"return", "json">>), Num(100)) }

---------------------------------------------------------------------------
(* rewriter.py: self_refine_rewrite, with rewrite_prompt and rewrite_once *)

\* resp.text of a generate_text call, before the client strips it
ResponseTexts == {<<"hi", "cat", WS>>, <<NL, "cat">>, <<"write", "story">>}

\* gemini_client.py generate_text: (resp.text or "").strip()
generate_text(resp_text) == StripText(resp_text)

Prompts == {<<"hi">>, <<WS, "cat", WS>>, <<"write", "error">>}

Thresholds == {9, 14, 21}

Modes == {"full", "light"}

\* the entry numbered by the loop variable i of range(max_rounds), from 0
TraceEntryFromZero(i, prompt, c) ==
    [round |-> i - 1, prompt |-> prompt, scores |-> c.scores, total |-> SumScores(c.scores),
     weakest |-> c.weakest, edit |-> c.edit, reason |-> c.reason]

TraceEntry(i, prompt, c) ==
    [round |-> i, prompt |-> prompt, scores |-> c.scores, total |-> SumScores(c.scores),
     weakest |-> c.weakest, edit |-> c.edit, reason |-> c.reason]

refArgs == <<original_prompt, rewrite_threshold, max_rounds, mode>>

\* the comparison made strict
ConvergedStrictly(total, threshold) == total > threshold

\* line 149: total >= rewrite_threshold
Converged(total, threshold) == total >= threshold

\* lines 135-150: the critique of an iteration returns; the entry is appended
\* and the total is compared with the threshold
Critique ==
    /\ refPc = "loop"
    /\ round < max_rounds
    /\ \E data \in CritiqueOutcomes :
          /\ crit' = normalize_critique(data)
          /\ trace' = Append(trace, TraceEntry(round + 1, current, crit'))
          /\ IF Converged(SumScores(crit'.scores), rewrite_threshold)
             THEN /\ refPc' = "done"
                  /\ exit' = "CONVERGED"
                  /\ final' = current
             ELSE /\ refPc' = "rewrite"
                  /\ UNCHANGED <<exit, final>>
    /\ round' = round + 1
    /\ callLog' = Append(callLog, "critique")
    /\ UNCHANGED <<refArgs, current, candidate, onceArgs>>
    /\ UNCHANGED refOthers

\* a failed critique call caught and attempted again in the same round
CritiqueRetried ==
    /\ refPc = "loop"
    /\ round < max_rounds
    /\ Len(callLog) <= 3 * max_rounds
    /\ refPc' = "loop"
    /\ callLog' = Append(callLog, "critique")
    /\ UNCHANGED <<refArgs, round, current, crit, candidate, trace, final, exit, onceArgs>>
    /\ UNCHANGED refOthers

\* line 136: generate_json raises inside critique_prompt
CritiqueRaises ==
    /\ refPc = "loop"
    /\ round < max_rounds
    /\ refPc' = "raised"
    /\ round' = round + 1
    /\ callLog' = Append(callLog, "critique")
    /\ UNCHANGED <<refArgs, current, crit, candidate, trace, final, exit, onceArgs>>
    /\ UNCHANGED refOthers

\* classify_intent(original_prompt, allow_llm=False).route
DeterministicRoute(t) == WithoutFallback(rule_route(t), FALSE).route

\* lines 110-112: rewrite_prompt on a SOCIAL text, no generation call
RewriteSocial ==
    /\ refPc = "rewrite"
    /\ DeterministicRoute(current) = "SOCIAL"
    /\ candidate' = StripText(current)
    /\ refPc' = "revise"
    /\ UNCHANGED <<refArgs, round, current, crit, trace, callLog, final, exit, onceArgs>>
    /\ UNCHANGED refOthers

\* lines 114-115: rewrite_prompt on any other text
RewriteGenerated ==
    /\ refPc = "rewrite"
    /\ DeterministicRoute(current) # "SOCIAL"
    /\ \E resp_text \in ResponseTexts :
          candidate' = StripText(generate_text(resp_text))
    /\ callLog' = Append(callLog, "rewrite")
    /\ refPc' = "revise"
    /\ UNCHANGED <<refArgs, round, current, crit, trace, final, exit, onceArgs>>
    /\ UNCHANGED refOthers

\* line 115: generate_text raises inside rewrite_prompt
RewriteRaises ==
    /\ refPc = "rewrite"
    /\ DeterministicRoute(current) # "SOCIAL"
    /\ callLog' = Append(callLog, "rewrite")
    /\ refPc' = "raised"
    /\ UNCHANGED <<refArgs, round, current, crit, candidate, trace, final, exit, onceArgs>>
    /\ UNCHANGED refOthers

\* rewrite_once(original_prompt, critique): what a call receives
CallOfOnce(prompt, critique) == [original_prompt |-> prompt, critique |-> critique]

\* no call of rewrite_once is in progress
NoCall == CallOfOnce(<<>>, NoCritique)

\* the edit applied to the prompt of the round and not to its rewrite
RewriteOnceOnCurrent ==
    /\ refPc = "revise"
    /\ onceArgs' = CallOfOnce(current, crit)
    /\ callLog' = Append(callLog, "revise")
    /\ candidate' = <<>>
    /\ refPc' = "revising"
    /\ UNCHANGED <<refArgs, round, current, crit, trace, final, exit>>
    /\ UNCHANGED refOthers

\* line 156: rewrite_once(candidate, crit) is called and makes its
\* generation call
RewriteOnce ==
    /\ refPc = "revise"
    /\ onceArgs' = CallOfOnce(candidate, crit)
    /\ callLog' = Append(callLog, "revise")
    /\ candidate' = <<>>
    /\ refPc' = "revising"
    /\ UNCHANGED <<refArgs, round, current, crit, trace, final, exit>>
    /\ UNCHANGED refOthers

\* line 156: current = rewrite_once(candidate, crit).strip()
RewriteOnceReturns ==
    /\ refPc = "revising"
    /\ \E resp_text \in ResponseTexts :
          current' = StripText(generate_text(resp_text))
    /\ onceArgs' = NoCall
    /\ refPc' = "loop"
    /\ UNCHANGED <<refArgs, round, crit, candidate, trace, callLog, final, exit>>
    /\ UNCHANGED refOthers

\* line 101: generate_text raises inside rewrite_once
RewriteOnceRaises ==
    /\ refPc = "revising"
    /\ refPc' = "raised"
    /\ UNCHANGED <<refArgs, round, current, crit, candidate, trace, callLog, final, exit, onceArgs>>
    /\ UNCHANGED refOthers

\* the loop returning the prompt it was given once the rounds are used up
ExhaustedReturnsOriginal ==
    /\ refPc = "loop"
    /\ round >= max_rounds
    /\ refPc' = "done"
    /\ exit' = "EXHAUSTED"
    /\ final' = StripText(original_prompt)
    /\ UNCHANGED <<refArgs, round, current, crit, candidate, trace, callLog, onceArgs>>
    /\ UNCHANGED refOthers

\* lines 135, 158: range(max_rounds) is used up; return current, trace
Exhausted ==
    /\ refPc = "loop"
    /\ round >= max_rounds
    /\ refPc' = "done"
    /\ exit' = "EXHAUSTED"
    /\ final' = current
    /\ UNCHANGED <<refArgs, round, current, crit, candidate, trace, callLog, onceArgs>>
    /\ UNCHANGED refOthers

NextRefine ==
    \/ Critique
    \/ CritiqueRaises
    \/ RewriteSocial
    \/ RewriteGenerated
    \/ RewriteRaises
    \/ RewriteOnce
    \/ RewriteOnceReturns
    \/ RewriteOnceRaises
    \/ Exhausted

---------------------------------------------------------------------------
(* judge.py: the heuristic judge.  A response is what the judge reads of    *)
(* it: its word count, whether it holds list markup, a full stop, a         *)
(* question mark, hedging language, and which query terms occur in it.      *)

QueryTerms == {"alpha", "beta"}

Response(n, steps, period, question, hedge, terms) ==
    [n_words |-> n, has_steps |-> steps, has_period |-> period,
     has_question_back |-> question, mentions_limitations |-> hedge, terms |-> terms]

EmptyResponse == Response(0, FALSE, FALSE, FALSE, FALSE, {})

\* word counts on both sides of 25, 120 and 250
WordCounts == {2, 25, 121, 251}

Responses ==
    {EmptyResponse}
    \cup {Response(n, st, pe, qh[1], qh[2], te) :
            n \in WordCounts, st \in BOOLEAN, pe \in BOOLEAN,
            qh \in {<<FALSE, FALSE>>, <<TRUE, FALSE>>, <<FALSE, TRUE>>},
            te \in {{}, QueryTerms}}

\* set(re.findall(r"[A-Za-z]{4,}", q.lower()))
Queries == {{"alpha"}, QueryTerms}

\* _clamp_1_5 of a number given in halves
clamp_1_5(halves) == Max2(1, Min2(5, RoundHalfEven(halves, 2)))

Bit(b) == IF b THEN 1 ELSE 0

\* lines 145-148
addresses_query_terms(q, r) == Cardinality({term \in q : term \in r.terms})

\* lines 151-157, in halves
IntentHalves(q, r) ==
    5 + 2 * Bit(addresses_query_terms(q, r) >= 2) + 2 * Bit(r.n_words >= 25)

ClarityHalves(r) == 5 + Bit(r.has_period) + (IF r.n_words <= 250 THEN 1 ELSE -1)

StructureHalves(r) ==
    4 + (IF r.has_steps THEN 2 ELSE IF r.n_words <= 120 THEN 1 ELSE 0)

SafetyHalves(r) == 9 + Bit(r.mentions_limitations \/ r.has_question_back)

\* scoring that gives up on the safety axis while the service is down
ScoresReadingService(q, r) ==
    [intent |-> clamp_1_5(IntentHalves(q, r)),
     clarity |-> clamp_1_5(ClarityHalves(r)),
     structure |-> clamp_1_5(StructureHalves(r)),
     safety |-> IF service = "up" THEN clamp_1_5(SafetyHalves(r)) ELSE 1,
     notes |-> "Heuristic scores based on overlap, length, and structure signals."]

heuristic_response_scores(q, r) ==
    [intent |-> clamp_1_5(IntentHalves(q, r)),
     clarity |-> clamp_1_5(ClarityHalves(r)),
     structure |-> clamp_1_5(StructureHalves(r)),
     safety |-> clamp_1_5(SafetyHalves(r)),
     notes |-> "Heuristic scores based on overlap, length, and structure signals."]

total_score(block) == block.intent + block.clarity + block.structure + block.safety

Abs(n) == IF n >= 0 THEN n ELSE 0 - n

\* the tie band narrowed to equal totals
WinnerOnAnyLead(sx, sy) == IF Abs(sx - sy) < 1 THEN "tie" ELSE IF sx > sy THEN "X" ELSE "Y"

\* lines 176-184
WinnerOf(sx, sy) == IF Abs(sx - sy) <= 1 THEN "tie" ELSE IF sx > sy THEN "X" ELSE "Y"

ReasonFor(winner) ==
    CASE winner = "tie" -> "Scores are very close under heuristic signals."
      [] winner = "X" -> "X scores higher on heuristic overlap/structure signals."
      [] winner = "Y" -> "Y scores higher on heuristic overlap/structure signals."

Verdict(X, Y, winner) ==
    [X |-> X, Y |-> Y, winner |-> winner, reason |-> ReasonFor(winner),
     judge_type |-> "heuristic"]

JudgeScored(X, Y) == Verdict(X, Y, WinnerOf(total_score(X), total_score(Y)))

heuristic_judge_pair(q, resp_x, resp_y) ==
    JudgeScored(heuristic_response_scores(q, resp_x), heuristic_response_scores(q, resp_y))

NoVerdictYet ==
    [X |-> [intent |-> 0, clarity |-> 0, structure |-> 0, safety |-> 0, notes |-> ""],
     Y |-> [intent |-> 0, clarity |-> 0, structure |-> 0, safety |-> 0, notes |-> ""],
     winner |-> "", reason |-> "", judge_type |-> ""]

\* a call of heuristic_judge_pair
HeuristicJudge ==
    /\ judPc = "first"
    /\ verdict' = heuristic_judge_pair(judIn.query, judIn.resp_x, judIn.resp_y)
    /\ judPc' = "second"
    /\ serviceAtFirst' = service
    /\ UNCHANGED <<judIn, verdict2, service>>
    /\ UNCHANGED judOthers

\* the generation service goes down or comes back between calls
ServiceChanges ==
    /\ judPc = "second"
    /\ service' = IF service = "up" THEN "down" ELSE "up"
    /\ UNCHANGED <<judIn, judPc, verdict, verdict2, serviceAtFirst>>
    /\ UNCHANGED judOthers

\* a later call of heuristic_judge_pair with the same arguments
HeuristicJudgeAgain ==
    /\ judPc = "second"
    /\ verdict2' = heuristic_judge_pair(judIn.query, judIn.resp_x, judIn.resp_y)
    /\ judPc' = "done"
    /\ UNCHANGED <<judIn, verdict, service, serviceAtFirst>>
    /\ UNCHANGED judOthers

NextJudge == HeuristicJudge \/ ServiceChanges \/ HeuristicJudgeAgain

---------------------------------------------------------------------------
(* judge.py used without the generation service: the module is imported,   *)
(* then heuristic_judge_pair is called                                     *)

\* the pairs judged offline
OfflineInputs ==
    {[query |-> q, resp_x |-> x, resp_y |-> y] :
        q \in Queries, x \in Responses,
        y \in {EmptyResponse, Response(25, TRUE, TRUE, FALSE, FALSE, QueryTerms)}}

\* judge.py line 23, from gemini_client import generate_json, runs the body
\* of gemini_client: lines 20-22 raise RuntimeError when no key is configured
ImportJudge ==
    /\ offPc = "import"
    /\ offPc' = IF credential = "set" THEN "loaded" ELSE "import_failed"
    /\ UNCHANGED <<credential, offIn, offCalls, offVerdict>>
    /\ UNCHANGED offOthers

\* heuristic_judge_pair called through the imported module; its body reaches
\* no generation call
OfflineHeuristicJudge ==
    /\ offPc = "loaded"
    /\ offVerdict' = heuristic_judge_pair(offIn.query, offIn.resp_x, offIn.resp_y)
    /\ offPc' = "returned"
    /\ UNCHANGED <<credential, offIn, offCalls>>
    /\ UNCHANGED offOthers

NextOffline == ImportJudge \/ OfflineHeuristicJudge

---------------------------------------------------------------------------
(* judge.py: judge_pair, the generative judge *)

\* generate_json raising: the transport fails, or an exception escapes
\* _safe_json_load
JudgeRaised(type) ==
    [kind |-> "raise", exc |-> type,
     X |-> Missing, Y |-> Missing, winner |-> Missing, reason |-> Missing]

\* the mapping generate_json returned, by the four keys judge_pair reads; an
\* error record and a {"data": ...} wrapper hold none of them
JudgeMapping(X, Y, winner, reason) ==
    [kind |-> "dict", exc |-> "", X |-> X, Y |-> Y, winner |-> winner, reason |-> reason]

NoJudgeData == [kind |-> "none", exc |-> "", X |-> Missing, Y |-> Missing,
                winner |-> Missing, reason |-> Missing]

\* a score block as the generator wrote it, or something else in its place
BlockRaw == {Missing, Raw("block", <<>>, 0), Raw("null", <<>>, 0)}

WinnerRaw ==
    {Missing, Raw("null", <<>>, 0), Num(ConfScale),
     Str(<<"X">>), Str(<<"Y">>), Str(<<"t", "i", "e">>),
     Str(<<"x">>), Str(<<"T", "i", "e">>), Str(<<"X", "|", "Y", "|", "t", "i", "e">>),
     Str(<<>>)}

JudgeReasonRaw == {Missing, Str(<<"o", "k">>), Raw("null", <<>>, 0)}

JudgeJsonOutcomes ==
    {JudgeRaised("TransportError"), JudgeRaised("RecursionError")}
    \cup {JudgeMapping(x, y, w, r) :
            x \in BlockRaw, y \in BlockRaw, w \in WinnerRaw, r \in JudgeReasonRaw}

\* lines 71-76: data["X"], data["Y"], data["winner"], data["reason"] in this
\* order; the first key that is absent raises KeyError
FirstMissingKey(data) ==
    IF data.X.k = "missing" THEN "X"
    ELSE IF data.Y.k = "missing" THEN "Y"
    ELSE IF data.winner.k = "missing" THEN "winner"
    ELSE IF data.reason.k = "missing" THEN "reason"
    ELSE ""

JudgeResult(X, Y, winner, reason) == [X |-> X, Y |-> Y, winner |-> winner, reason |-> reason]

NoJudgeResult == JudgeResult(Missing, Missing, Missing, Missing)

\* judge_pair, lines 59-76: nothing is caught and nothing is validated
JudgePair ==
    /\ gjPc = "call"
    /\ \E data \in JudgeJsonOutcomes :
          /\ gjData' = data
          /\ IF data.kind = "raise"
             THEN /\ gjPc' = "raised"
                  /\ gjExc' = data.exc
                  /\ UNCHANGED gjResult
             ELSE IF FirstMissingKey(data) # ""
             THEN /\ gjPc' = "raised"
                  /\ gjExc' = "KeyError"
                  /\ UNCHANGED gjResult
             ELSE /\ gjPc' = "returned"
                  /\ gjResult' = JudgeResult(data.X, data.Y, data.winner, data.reason)
                  /\ UNCHANGED gjExc
    /\ UNCHANGED gjOthers

NextJudgePair == JudgePair

---------------------------------------------------------------------------
(* rewriter.py: critique_prompt, one call of _normalize_critique on what   *)
(* generate_json returned                                                  *)

\* the "scores" field as the generator may write it: absent, no mapping,
\* empty, the rubric of the prompt at its top, in range, out of range or not
\* numbers, too large for a float, keyed by something else
ScoresRaw ==
    { NoScores, ScoresNotDict, ScoresDict(<<>>),
      ScoresDict(<<Item("intent", Num(500)), Item("clarity", Num(500)),
                   Item("structure", Num(500)), Item("safety", Num(500))>>),
      ScoresDict(<<Item("intent", Num(300)), Item("clarity", Num(200)),
                   Item("structure", Num(400)), Item("safety", Num(0))>>),
      ScoresDict(<<Item("intent", Num(-300)), Item("clarity", Str(<<"4">>)),
                   Item("structure", Raw("null", <<>>, 0)), Item("safety", Num(790))>>),
      ScoresDict(<<Item("intent", Raw("huge", <<>>, 1)), Item("clarity", Num(100))>>),
      ScoresDict(<<Item("bogus", Num(300))>>),
      ScoresDict(<<Item("clarity", Num(200)), Item("tone", Raw("bool", <<>>, 1))>>) }

WeakestRaw ==
    {Missing, Raw("null", <<>>, 0), Str(<<"clarity">>), Str(<<WS, "clarity", WS>>),
     Str(<<"bogus">>), Str(<<WS>>)}

EditRaw ==
    {Missing, Raw("null", <<>>, 0), Str(<<WS>>), Str(<<"add", "context", WS>>),
     Str(<<"return", "json">>), Str(<<"{", "scores", ":", "{", "}", "}">>)}

CritiqueReasonRaw == {Missing, Raw("null", <<>>, 0), Str(<<"ok">>), Str(<<>>)}

CritiqueInputs ==
    {CritiqueData(sc, w, e, r) :
        sc \in ScoresRaw, w \in WeakestRaw, e \in EditRaw, r \in CritiqueReasonRaw}

\* critique_prompt, line 86: return _normalize_critique(data)
NormalizeCritique ==
    /\ critPc = "call"
    /\ critOut' = normalize_critique(critIn)
    /\ critPc' = "returned"
    /\ UNCHANGED critIn
    /\ UNCHANGED crtOthers

NextCritique == NormalizeCritique

---------------------------------------------------------------------------
(* gemini_client.py: _safe_json_load on a JSON object and on the same      *)
(* object as the generation service wraps it                               *)

\* well-formed JSON objects: flat, with blanks and line breaks, nested, empty,
\* and with string values that hold a brace or a bracket
ObjectTexts ==
    { <<"{", DQ, "a", DQ, ":", "1", "}">>,
      <<"{", "}">>,
      <<"{", NL, SP, DQ, "a", DQ, ":", SP, "1", NL, "}">>,
      <<"{", DQ, "a", DQ, ":", "[", "1", ",", "1", "]", "}">>,
      <<"{", DQ, "a", DQ, ":", "{", DQ, "a", DQ, ":", "1", "}", "}">>,
      <<"{", DQ, "a", DQ, ":", DQ, "a", SP, "a", DQ, "}">>,
      <<"{", DQ, "a", DQ, ":", DQ, "}", DQ, "}">>,
      <<"{", DQ, "a", DQ, ":", DQ, "{", DQ, "}">>,
      <<"{", DQ, "a", DQ, ":", DQ, "]", DQ, ",", DQ, "1", DQ, ":", "1", "}">>,
      <<"{", DQ, "[", DQ, ":", "1", "}">> }

\* the opening line of a fenced block: the fence, bare or with a language tag
FenceOpenings == {<<BQ, BQ, BQ, NL>>, <<BQ, BQ, BQ, "a", NL>>, <<SP, BQ, BQ, BQ, "a", "a", NL>>}

\* the closing fence, on a line of its own or not, blanks after it or not
FenceClosings == {<<NL, BQ, BQ, BQ>>, <<BQ, BQ, BQ>>, <<NL, BQ, BQ, BQ, NL>>, <<SP, NL, BQ, BQ, BQ, SP>>}

\* prose before and after the object: no brace and no bracket in it
ProseBefore == {<<>>, <<"a", SP>>, <<"a", ":", NL>>, <<"a", ",", SP, DQ, "a", DQ, SP>>}

ProseAfter == {<<>>, <<SP, "a">>, <<NL, "a", ",", SP, "a">>, <<SP, "1", ":", DQ, "a", DQ>>}

Wrappings(j) ==
    {[kind |-> "fence", text |-> o \o j \o c] : o \in FenceOpenings, c \in FenceClosings}
    \cup {[kind |-> "prose", text |-> b \o j \o a] : b \in ProseBefore, a \in ProseAfter}

\* _safe_json_load(J)
RecoverAlone ==
    /\ rtPc = "alone"
    /\ rtAlone' = safe_json_load(rtJ)
    /\ rtPc' = "wrapped"
    /\ UNCHANGED <<rtJ, rtKind, rtText, rtWrapped>>
    /\ UNCHANGED rtOthers

\* _safe_json_load of the wrapped J
RecoverWrapped ==
    /\ rtPc = "wrapped"
    /\ rtWrapped' = safe_json_load(rtText)
    /\ rtPc' = "done"
    /\ UNCHANGED <<rtJ, rtKind, rtText, rtAlone>>
    /\ UNCHANGED rtOthers

NextRoundTrip == RecoverAlone \/ RecoverWrapped

---------------------------------------------------------------------------
(* db.py: save_comparison, and app.py: the rating form that calls it *)

MaxRuns == 2
MaxClock == 6

\* app.py:325  the anti-spam cooldown between two submissions, in seconds
Cooldown == 3

ComparisonIds == 1..MaxRuns
Picks == {"ORIGINAL", "ENHANCED", "TIE"}

\* before the first run there is no last_result
NoRun == 0

\* the columns of a row that a rating can change: ts is datetime.clock()
Row(id, ts, pick) == [comparison_id |-> id, ts |-> ts, human_pick |-> pick]

\* INSERT OR REPLACE INTO comparisons: the row that holds the primary key is
\* deleted and the new one is inserted
save_comparison(rs, id, ts, pick) ==
    {r \in rs : r.comparison_id # id} \cup {Row(id, ts, pick)}

\* time passes
Tick ==
    /\ clock < MaxClock
    /\ clock' = clock + 1
    /\ UNCHANGED <<rows, runs, last_result, saved_ids, last_submit_ts>>
    /\ UNCHANGED dbOthers

\* the Run button: the result is stored under a fresh uuid4
RunComparison ==
    /\ runs < MaxRuns
    /\ runs' = runs + 1
    /\ last_result' = runs + 1
    /\ UNCHANGED <<rows, clock, saved_ids, last_submit_ts>>
    /\ UNCHANGED dbOthers

\* the Submit button: st.stop() within the cooldown or when the identifier is
\* in saved_ids, and otherwise the rating is saved
SubmitRating ==
    /\ last_result # NoRun
    /\ ~(clock - last_submit_ts < Cooldown)
    /\ last_result \notin saved_ids
    /\ \E pick \in Picks : rows' = save_comparison(rows, last_result, clock, pick)
    /\ last_submit_ts' = clock
    /\ saved_ids' = saved_ids \cup {last_result}
    /\ UNCHANGED <<clock, runs, last_result>>
    /\ UNCHANGED dbOthers

\* any other caller of save_comparison, with an identifier of its choice
SaveComparison ==
    /\ \E id \in ComparisonIds, pick \in Picks :
         rows' = save_comparison(rows, id, clock, pick)
    /\ UNCHANGED <<clock, runs, last_result, saved_ids, last_submit_ts>>
    /\ UNCHANGED dbOthers

NextStore == Tick \/ RunComparison \/ SubmitRating \/ SaveComparison

---------------------------------------------------------------------------
(* answerer.py: run_pipeline *)

Variants ==
    { <<"A", "B", "C">>, <<"a", "b", "c">>, <<"A">>, <<"B">>, <<"C">>, <<"B", "C">>,
      <<"a", "c">>, <<"B", "A", "S", "E", "L", "I", "N", "E">>,
      <<"b", "a", "s", "e", "l", "i", "n", "e">> }

BASELINE == <<"B", "A", "S", "E", "L", "I", "N", "E">>

\* "A" in variant.upper()
InVariant(c, v) == \E i \in 1..Len(v) : Upper(v)[i] = c

\* trace = None
NoTrace == [k |-> "None"]

\* what self_refine_rewrite(q, ...) can return: a prompt and a list of entries
LoopResults(q) ==
    {[prompt |-> p, trace |-> t] : p \in {q, <<"cat", "please">>, <<>>},
                                   t \in {<<>>, <<"entry">>, <<"entry", "entry">>}}

PipelineOutput(r, m, orig, enh, tr) ==
    [route |-> r, enhance_mode |-> m, original_prompt |-> orig, enhanced_prompt |-> enh,
     trace |-> tr]

\* the gate without the bypass of SOCIAL
GateWithoutBypass(r, v) ==
    IF ~InVariant("A", v) THEN "FULL"
    ELSE IF r = "QA" THEN "LIGHT" ELSE "FULL"

\* lines 81-89: the gate of option A
GateOf(r, v) ==
    IF r = "SOCIAL" THEN "NONE"
    ELSE IF ~InVariant("A", v) THEN "FULL"
    ELSE IF r = "QA" THEN "LIGHT" ELSE "FULL"

\* lines 55-89: classify, and either answer as the baseline or set the gate
Gate ==
    /\ plPc = "call"
    /\ \E r \in Routes :
         /\ plRoute' = r
         /\ IF Upper(variant) = BASELINE
            THEN /\ plOut' = PipelineOutput("QA", "NONE", StripText(plQuery),
                                            StripText(plQuery), NoTrace)
                 /\ plPc' = "returned"
                 /\ UNCHANGED enhance_mode
            ELSE /\ enhance_mode' = GateOf(r, variant)
                 /\ plPc' = "critique"
                 /\ UNCHANGED plOut
    /\ UNCHANGED <<plQuery, variant, final_prompt, plTrace, loopCalls>>
    /\ UNCHANGED plOthers

\* lines 92-94
CritiqueOriginal ==
    /\ plPc = "critique"
    /\ final_prompt' = StripText(plQuery)
    /\ plTrace' = NoTrace
    /\ plPc' = "refine"
    /\ UNCHANGED <<plQuery, variant, plRoute, enhance_mode, loopCalls, plOut>>
    /\ UNCHANGED plOthers

\* lines 96-103
SelfRefine ==
    /\ plPc = "refine"
    /\ IF enhance_mode # "NONE"
       THEN /\ loopCalls' = Append(loopCalls, IF enhance_mode = "LIGHT" THEN "light" ELSE "full")
            /\ \E res \in LoopResults(StripText(plQuery)) :
                 /\ final_prompt' = res.prompt
                 /\ plTrace' = res.trace
       ELSE UNCHANGED <<loopCalls, final_prompt, plTrace>>
    /\ plPc' = "answer"
    /\ UNCHANGED <<plQuery, variant, plRoute, enhance_mode, plOut>>
    /\ UNCHANGED plOthers

\* lines 105-129
Answer ==
    /\ plPc = "answer"
    /\ plOut' = PipelineOutput(plRoute, enhance_mode, StripText(plQuery), final_prompt, plTrace)
    /\ plPc' = "returned"
    /\ UNCHANGED <<plQuery, variant, plRoute, enhance_mode, final_prompt, plTrace, loopCalls>>
    /\ UNCHANGED plOthers

\* critique_prompt, self_refine_rewrite or generate_text raises
PipelineRaises ==
    /\ plPc \in {"critique", "refine", "answer"}
    /\ plPc = "refine" => enhance_mode # "NONE"
    /\ plPc' = "raised"
    /\ UNCHANGED <<plQuery, variant, plRoute, enhance_mode, final_prompt, plTrace, loopCalls, plOut>>
    /\ UNCHANGED plOthers

NextPipeline == Gate \/ CritiqueOriginal \/ SelfRefine \/ Answer \/ PipelineRaises

---------------------------------------------------------------------------
(* intent_classifier.py: choose_rewrite_threshold in floating point.  A     *)
(* Python float is a binary number of 53 significant bits and each          *)
(* operation rounds its exact result to the nearest such number, a tie to   *)
(* the even one.  The model keeps MantissaBits significant bits; a number   *)
(* n stands for n / 2^MantissaBits.                                         *)

MantissaBits == 6

RECURSIVE Pow2(_)
Pow2(k) == IF k = 0 THEN 1 ELSE 2 * Pow2(k - 1)

RECURSIVE BitLength(_)
BitLength(n) == IF n = 0 THEN 0 ELSE 1 + BitLength(n \div 2)

\* 1.0
FloatOne == Pow2(MantissaBits)

\* the float nearest to n
Fl(n) ==
    IF BitLength(n) <= MantissaBits THEN n
    ELSE RoundHalfEven(n, Pow2(BitLength(n) - MantissaBits)) * Pow2(BitLength(n) - MantissaBits)

\* line 148: round(base * conf + min_threshold * (1.0 - conf))
RoundedBlend(base, conf) ==
    RoundHalfEven(Fl(Fl(base * conf) + Fl(min_threshold * Fl(FloatOne - conf))), FloatOne)

\* line 150
ClampThreshold(rounded) == Max2(4, Min2(20, rounded))

\* choose_rewrite_threshold at the lower confidence
ChooseAtLower ==
    /\ fpPc = "lower"
    /\ fpRounded' = <<RoundedBlend(base_by_route(fpRoute), fpConf[1]), 0>>
    /\ fpThr' = <<ClampThreshold(fpRounded'[1]), 0>>
    /\ fpPc' = "higher"
    /\ UNCHANGED <<fpRoute, fpConf>>
    /\ UNCHANGED fpOthers

\* choose_rewrite_threshold at the higher confidence
ChooseAtHigher ==
    /\ fpPc = "higher"
    /\ fpRounded' = <<fpRounded[1], RoundedBlend(base_by_route(fpRoute), fpConf[2])>>
    /\ fpThr' = <<fpThr[1], ClampThreshold(fpRounded'[2])>>
    /\ fpPc' = "done"
    /\ UNCHANGED <<fpRoute, fpConf>>
    /\ UNCHANGED fpOthers

NextFloatPolicy == ChooseAtLower \/ ChooseAtHigher

---------------------------------------------------------------------------
(* excel_logger.py: the lock file, and append_run, set_human_rating and     *)
(* append_comparison called concurrently on one workbook path               *)

NumCallers == 2
MaxCalls == 3

Callers == 1..NumCallers

LoggerOps == {"append_run", "set_human_rating", "append_comparison"}

\* a caller is past _acquire_lock and before the end of _release_lock
Holders == {p \in Callers : xlPc[p] \in {"load", "write", "release"}}

\* os.open without O_EXCL opens the file that exists
acquire_lock_without_excl(exists) == TRUE

\* lines 106-110: os.open(lock_path, O_CREAT | O_EXCL | O_RDWR) gives a
\* descriptor when the file does not exist and FileExistsError when it does
acquire_lock(exists) == ~exists

EmptyWorkbook == [rows |-> 0, rated |-> 0]

\* a call of one of the three functions begins
Call(p) ==
    /\ xlPc[p] \in {"idle", "returned", "raised"}
    /\ xlCalls < MaxCalls
    /\ \E op \in LoggerOps : xlOp' = [xlOp EXCEPT ![p] = op]
    /\ xlCalls' = xlCalls + 1
    /\ xlPc' = [xlPc EXCEPT ![p] = "call"]
    /\ xlExc' = [xlExc EXCEPT ![p] = ""]
    /\ UNCHANGED <<lockFile, workbook, wb>>
    /\ UNCHANGED xlOthers

\* lines 144-148: fd = _acquire_lock(lock_path); raise if fd is None
AcquireLock(p) ==
    /\ xlPc[p] = "call"
    /\ IF acquire_lock(lockFile)
       THEN /\ lockFile' = TRUE
            /\ xlPc' = [xlPc EXCEPT ![p] = "load"]
            /\ UNCHANGED xlExc
       ELSE /\ xlPc' = [xlPc EXCEPT ![p] = "raised"]
            /\ xlExc' = [xlExc EXCEPT ![p] = "locked"]
            /\ UNCHANGED lockFile
    /\ UNCHANGED <<workbook, xlOp, wb, xlCalls>>
    /\ UNCHANGED xlOthers

\* lines 151-152: wb = _load_or_create(path)
LoadWorkbook(p) ==
    /\ xlPc[p] = "load"
    /\ wb' = [wb EXCEPT ![p] = workbook]
    /\ xlPc' = [xlPc EXCEPT ![p] = "write"]
    /\ UNCHANGED <<lockFile, workbook, xlOp, xlExc, xlCalls>>
    /\ UNCHANGED xlOthers

\* load_workbook or wb.save raises: control goes to the finally clause
WorkbookRaises(p) ==
    /\ xlPc[p] \in {"load", "write"}
    /\ xlExc' = [xlExc EXCEPT ![p] = "io"]
    /\ xlPc' = [xlPc EXCEPT ![p] = "release"]
    /\ UNCHANGED <<lockFile, workbook, xlOp, wb, xlCalls>>
    /\ UNCHANGED xlOthers

\* lines 154-178 and 252-272: ws.append(row); wb.save(path)
AppendRow(p) ==
    /\ xlPc[p] = "write"
    /\ xlOp[p] \in {"append_run", "append_comparison"}
    /\ wb' = [wb EXCEPT ![p] = [@ EXCEPT !.rows = @ + 1]]
    /\ workbook' = wb'[p]
    /\ xlPc' = [xlPc EXCEPT ![p] = "release"]
    /\ UNCHANGED <<lockFile, xlOp, xlExc, xlCalls>>
    /\ UNCHANGED xlOthers

\* lines 203-215: the row of the run is rated and the workbook saved, or no
\* row matches and nothing is saved
SetHumanRating(p) ==
    /\ xlPc[p] = "write"
    /\ xlOp[p] = "set_human_rating"
    /\ \/ /\ wb[p].rows > 0
          /\ wb' = [wb EXCEPT ![p] = [@ EXCEPT !.rated = @ + 1]]
          /\ workbook' = wb'[p]
       \/ UNCHANGED <<wb, workbook>>
    /\ xlPc' = [xlPc EXCEPT ![p] = "release"]
    /\ UNCHANGED <<lockFile, xlOp, xlExc, xlCalls>>
    /\ UNCHANGED xlOthers

\* lines 113-121, in the finally clause: os.close(fd); os.remove(lock_path);
\* the function is left and its workbook object with it
ReleaseLock(p) ==
    /\ xlPc[p] = "release"
    /\ lockFile' = FALSE
    /\ xlPc' = [xlPc EXCEPT ![p] = IF xlExc[p] = "" THEN "returned" ELSE "raised"]
    /\ wb' = [wb EXCEPT ![p] = EmptyWorkbook]
    /\ UNCHANGED <<workbook, xlOp, xlExc, xlCalls>>
    /\ UNCHANGED xlOthers

NextLogger ==
    \E p \in Callers :
        \/ Call(p)
        \/ AcquireLock(p)
        \/ LoadWorkbook(p)
        \/ WorkbookRaises(p)
        \/ AppendRow(p)
        \/ SetHumanRating(p)
        \/ ReleaseLock(p)

---------------------------------------------------------------------------
(* Specifications: one per component, the other components idle *)

InitRecoverSpec ==
    /\ txt \in RecoverInputs
    /\ recPc = "call"
    /\ loaded = NoResult
    /\ text = <<>>
    /\ allow_llm = FALSE
    /\ clsPc = "idle"
    /\ genData = NotCalled
    /\ genCalls = 0
    /\ intent = NoVerdict
    /\ polIntent = NoVerdict
    /\ polPc = "idle"
    /\ thr = 0
    /\ original_prompt = <<>>
    /\ rewrite_threshold = 0
    /\ max_rounds = 0
    /\ mode = "full"
    /\ refPc = "idle"
    /\ round = 0
    /\ current = <<>>
    /\ crit = NoCritique
    /\ candidate = <<>>
    /\ trace = <<>>
    /\ callLog = <<>>
    /\ final = <<>>
    /\ exit = ""
    /\ onceArgs = NoCall
    /\ judIn = [query |-> {}, resp_x |-> EmptyResponse, resp_y |-> EmptyResponse]
    /\ judPc = "idle"
    /\ verdict = NoVerdictYet
    /\ verdict2 = NoVerdictYet
    /\ service = "up"
    /\ serviceAtFirst = "up"
    /\ credential = "set"
    /\ offIn = [query |-> {}, resp_x |-> EmptyResponse, resp_y |-> EmptyResponse]
    /\ offPc = "idle"
    /\ offCalls = 0
    /\ offVerdict = NoVerdictYet
    /\ gjData = NoJudgeData
    /\ gjPc = "idle"
    /\ gjExc = ""
    /\ gjResult = NoJudgeResult
    /\ critIn = CritiqueData(NoScores, Missing, Missing, Missing)
    /\ critPc = "idle"
    /\ critOut = NoCritique
    /\ rtJ = <<>>
    /\ rtKind = "none"
    /\ rtText = <<>>
    /\ rtPc = "idle"
    /\ rtAlone = NoResult
    /\ rtWrapped = NoResult
    /\ rows = {}
    /\ clock = 0
    /\ runs = 0
    /\ last_result = 0
    /\ saved_ids = {}
    /\ last_submit_ts = 0
    /\ plQuery = <<>>
    /\ variant = <<>>
    /\ plPc = "idle"
    /\ plRoute = ""
    /\ enhance_mode = ""
    /\ final_prompt = <<>>
    /\ plTrace = <<>>
    /\ loopCalls = <<>>
    /\ plOut = <<>>
    /\ fpRoute = ""
    /\ fpConf = <<0, 0>>
    /\ fpPc = "idle"
    /\ fpRounded = <<0, 0>>
    /\ fpThr = <<0, 0>>
    /\ lockFile = FALSE
    /\ workbook = [rows |-> 0, rated |-> 0]
    /\ xlPc = <<>>
    /\ xlOp = <<>>
    /\ wb = <<>>
    /\ xlExc = <<>>
    /\ xlCalls = 0

SpecRecover == InitRecoverSpec /\ [][NextRecover]_vars

InitClassifySpec ==
    /\ txt = <<>>
    /\ recPc = "idle"
    /\ loaded = NoResult
    /\ text \in ClassifyTexts
    /\ allow_llm \in BOOLEAN
    /\ clsPc = "call"
    /\ genData = NotCalled
    /\ genCalls = 0
    /\ intent = NoVerdict
    /\ polIntent = NoVerdict
    /\ polPc = "idle"
    /\ thr = 0
    /\ original_prompt = <<>>
    /\ rewrite_threshold = 0
    /\ max_rounds = 0
    /\ mode = "full"
    /\ refPc = "idle"
    /\ round = 0
    /\ current = <<>>
    /\ crit = NoCritique
    /\ candidate = <<>>
    /\ trace = <<>>
    /\ callLog = <<>>
    /\ final = <<>>
    /\ exit = ""
    /\ onceArgs = NoCall
    /\ judIn = [query |-> {}, resp_x |-> EmptyResponse, resp_y |-> EmptyResponse]
    /\ judPc = "idle"
    /\ verdict = NoVerdictYet
    /\ verdict2 = NoVerdictYet
    /\ service = "up"
    /\ serviceAtFirst = "up"
    /\ credential = "set"
    /\ offIn = [query |-> {}, resp_x |-> EmptyResponse, resp_y |-> EmptyResponse]
    /\ offPc = "idle"
    /\ offCalls = 0
    /\ offVerdict = NoVerdictYet
    /\ gjData = NoJudgeData
    /\ gjPc = "idle"
    /\ gjExc = ""
    /\ gjResult = NoJudgeResult
    /\ critIn = CritiqueData(NoScores, Missing, Missing, Missing)
    /\ critPc = "idle"
    /\ critOut = NoCritique
    /\ rtJ = <<>>
    /\ rtKind = "none"
    /\ rtText = <<>>
    /\ rtPc = "idle"
    /\ rtAlone = NoResult
    /\ rtWrapped = NoResult
    /\ rows = {}
    /\ clock = 0
    /\ runs = 0
    /\ last_result = 0
    /\ saved_ids = {}
    /\ last_submit_ts = 0
    /\ plQuery = <<>>
    /\ variant = <<>>
    /\ plPc = "idle"
    /\ plRoute = ""
    /\ enhance_mode = ""
    /\ final_prompt = <<>>
    /\ plTrace = <<>>
    /\ loopCalls = <<>>
    /\ plOut = <<>>
    /\ fpRoute = ""
    /\ fpConf = <<0, 0>>
    /\ fpPc = "idle"
    /\ fpRounded = <<0, 0>>
    /\ fpThr = <<0, 0>>
    /\ lockFile = FALSE
    /\ workbook = [rows |-> 0, rated |-> 0]
    /\ xlPc = <<>>
    /\ xlOp = <<>>
    /\ wb = <<>>
    /\ xlExc = <<>>
    /\ xlCalls = 0

SpecClassify == InitClassifySpec /\ [][NextClassify]_vars

InitPolicySpec ==
    /\ txt = <<>>
    /\ recPc = "idle"
    /\ loaded = NoResult
    /\ text = <<>>
    /\ allow_llm = FALSE
    /\ clsPc = "idle"
    /\ genData = NotCalled
    /\ genCalls = 0
    /\ intent = NoVerdict
    /\ polIntent \in {IntentResult(r, c, Literal("any")) : r \in Routes, c \in 0..ConfScale}
    /\ polPc = "call"
    /\ thr = 0
    /\ original_prompt = <<>>
    /\ rewrite_threshold = 0
    /\ max_rounds = 0
    /\ mode = "full"
    /\ refPc = "idle"
    /\ round = 0
    /\ current = <<>>
    /\ crit = NoCritique
    /\ candidate = <<>>
    /\ trace = <<>>
    /\ callLog = <<>>
    /\ final = <<>>
    /\ exit = ""
    /\ onceArgs = NoCall
    /\ judIn = [query |-> {}, resp_x |-> EmptyResponse, resp_y |-> EmptyResponse]
    /\ judPc = "idle"
    /\ verdict = NoVerdictYet
    /\ verdict2 = NoVerdictYet
    /\ service = "up"
    /\ serviceAtFirst = "up"
    /\ credential = "set"
    /\ offIn = [query |-> {}, resp_x |-> EmptyResponse, resp_y |-> EmptyResponse]
    /\ offPc = "idle"
    /\ offCalls = 0
    /\ offVerdict = NoVerdictYet
    /\ gjData = NoJudgeData
    /\ gjPc = "idle"
    /\ gjExc = ""
    /\ gjResult = NoJudgeResult
    /\ critIn = CritiqueData(NoScores, Missing, Missing, Missing)
    /\ critPc = "idle"
    /\ critOut = NoCritique
    /\ rtJ = <<>>
    /\ rtKind = "none"
    /\ rtText = <<>>
    /\ rtPc = "idle"
    /\ rtAlone = NoResult
    /\ rtWrapped = NoResult
    /\ rows = {}
    /\ clock = 0
    /\ runs = 0
    /\ last_result = 0
    /\ saved_ids = {}
    /\ last_submit_ts = 0
    /\ plQuery = <<>>
    /\ variant = <<>>
    /\ plPc = "idle"
    /\ plRoute = ""
    /\ enhance_mode = ""
    /\ final_prompt = <<>>
    /\ plTrace = <<>>
    /\ loopCalls = <<>>
    /\ plOut = <<>>
    /\ fpRoute = ""
    /\ fpConf = <<0, 0>>
    /\ fpPc = "idle"
    /\ fpRounded = <<0, 0>>
    /\ fpThr = <<0, 0>>
    /\ lockFile = FALSE
    /\ workbook = [rows |-> 0, rated |-> 0]
    /\ xlPc = <<>>
    /\ xlOp = <<>>
    /\ wb = <<>>
    /\ xlExc = <<>>
    /\ xlCalls = 0

SpecPolicy == InitPolicySpec /\ [][NextPolicy]_vars

InitRefineSpec ==
    /\ txt = <<>>
    /\ recPc = "idle"
    /\ loaded = NoResult
    /\ text = <<>>
    /\ allow_llm = FALSE
    /\ clsPc = "idle"
    /\ genData = NotCalled
    /\ genCalls = 0
    /\ intent = NoVerdict
    /\ polIntent = NoVerdict
    /\ polPc = "idle"
    /\ thr = 0
    /\ original_prompt \in Prompts
    /\ rewrite_threshold \in Thresholds
    /\ max_rounds \in 0..MaxRounds
    /\ mode \in Modes
    /\ refPc = "loop"
    /\ round = 0
    /\ current = StripText(original_prompt)
    /\ crit = NoCritique
    /\ candidate = <<>>
    /\ trace = <<>>
    /\ callLog = <<>>
    /\ final = <<>>
    /\ exit = ""
    /\ onceArgs = NoCall
    /\ judIn = [query |-> {}, resp_x |-> EmptyResponse, resp_y |-> EmptyResponse]
    /\ judPc = "idle"
    /\ verdict = NoVerdictYet
    /\ verdict2 = NoVerdictYet
    /\ service = "up"
    /\ serviceAtFirst = "up"
    /\ credential = "set"
    /\ offIn = [query |-> {}, resp_x |-> EmptyResponse, resp_y |-> EmptyResponse]
    /\ offPc = "idle"
    /\ offCalls = 0
    /\ offVerdict = NoVerdictYet
    /\ gjData = NoJudgeData
    /\ gjPc = "idle"
    /\ gjExc = ""
    /\ gjResult = NoJudgeResult
    /\ critIn = CritiqueData(NoScores, Missing, Missing, Missing)
    /\ critPc = "idle"
    /\ critOut = NoCritique
    /\ rtJ = <<>>
    /\ rtKind = "none"
    /\ rtText = <<>>
    /\ rtPc = "idle"
    /\ rtAlone = NoResult
    /\ rtWrapped = NoResult
    /\ rows = {}
    /\ clock = 0
    /\ runs = 0
    /\ last_result = 0
    /\ saved_ids = {}
    /\ last_submit_ts = 0
    /\ plQuery = <<>>
    /\ variant = <<>>
    /\ plPc = "idle"
    /\ plRoute = ""
    /\ enhance_mode = ""
    /\ final_prompt = <<>>
    /\ plTrace = <<>>
    /\ loopCalls = <<>>
    /\ plOut = <<>>
    /\ fpRoute = ""
    /\ fpConf = <<0, 0>>
    /\ fpPc = "idle"
    /\ fpRounded = <<0, 0>>
    /\ fpThr = <<0, 0>>
    /\ lockFile = FALSE
    /\ workbook = [rows |-> 0, rated |-> 0]
    /\ xlPc = <<>>
    /\ xlOp = <<>>
    /\ wb = <<>>
    /\ xlExc = <<>>
    /\ xlCalls = 0

SpecRefine == InitRefineSpec /\ [][NextRefine]_vars

InitJudgeSpec ==
    /\ txt = <<>>
    /\ recPc = "idle"
    /\ loaded = NoResult
    /\ text = <<>>
    /\ allow_llm = FALSE
    /\ clsPc = "idle"
    /\ genData = NotCalled
    /\ genCalls = 0
    /\ intent = NoVerdict
    /\ polIntent = NoVerdict
    /\ polPc = "idle"
    /\ thr = 0
    /\ original_prompt = <<>>
    /\ rewrite_threshold = 0
    /\ max_rounds = 0
    /\ mode = "full"
    /\ refPc = "idle"
    /\ round = 0
    /\ current = <<>>
    /\ crit = NoCritique
    /\ candidate = <<>>
    /\ trace = <<>>
    /\ callLog = <<>>
    /\ final = <<>>
    /\ exit = ""
    /\ onceArgs = NoCall
    /\ judIn \in {[query |-> q, resp_x |-> x, resp_y |-> y] :
                    q \in Queries, x \in Responses, y \in Responses}
    /\ judPc = "first"
    /\ verdict = NoVerdictYet
    /\ verdict2 = NoVerdictYet
    /\ service \in {"up", "down"}
    /\ serviceAtFirst = "up"
    /\ credential = "set"
    /\ offIn = [query |-> {}, resp_x |-> EmptyResponse, resp_y |-> EmptyResponse]
    /\ offPc = "idle"
    /\ offCalls = 0
    /\ offVerdict = NoVerdictYet
    /\ gjData = NoJudgeData
    /\ gjPc = "idle"
    /\ gjExc = ""
    /\ gjResult = NoJudgeResult
    /\ critIn = CritiqueData(NoScores, Missing, Missing, Missing)
    /\ critPc = "idle"
    /\ critOut = NoCritique
    /\ rtJ = <<>>
    /\ rtKind = "none"
    /\ rtText = <<>>
    /\ rtPc = "idle"
    /\ rtAlone = NoResult
    /\ rtWrapped = NoResult
    /\ rows = {}
    /\ clock = 0
    /\ runs = 0
    /\ last_result = 0
    /\ saved_ids = {}
    /\ last_submit_ts = 0
    /\ plQuery = <<>>
    /\ variant = <<>>
    /\ plPc = "idle"
    /\ plRoute = ""
    /\ enhance_mode = ""
    /\ final_prompt = <<>>
    /\ plTrace = <<>>
    /\ loopCalls = <<>>
    /\ plOut = <<>>
    /\ fpRoute = ""
    /\ fpConf = <<0, 0>>
    /\ fpPc = "idle"
    /\ fpRounded = <<0, 0>>
    /\ fpThr = <<0, 0>>
    /\ lockFile = FALSE
    /\ workbook = [rows |-> 0, rated |-> 0]
    /\ xlPc = <<>>
    /\ xlOp = <<>>
    /\ wb = <<>>
    /\ xlExc = <<>>
    /\ xlCalls = 0

SpecJudge == InitJudgeSpec /\ [][NextJudge]_vars

InitOfflineSpec ==
    /\ txt = <<>>
    /\ recPc = "idle"
    /\ loaded = NoResult
    /\ text = <<>>
    /\ allow_llm = FALSE
    /\ clsPc = "idle"
    /\ genData = NotCalled
    /\ genCalls = 0
    /\ intent = NoVerdict
    /\ polIntent = NoVerdict
    /\ polPc = "idle"
    /\ thr = 0
    /\ original_prompt = <<>>
    /\ rewrite_threshold = 0
    /\ max_rounds = 0
    /\ mode = "full"
    /\ refPc = "idle"
    /\ round = 0
    /\ current = <<>>
    /\ crit = NoCritique
    /\ candidate = <<>>
    /\ trace = <<>>
    /\ callLog = <<>>
    /\ final = <<>>
    /\ exit = ""
    /\ onceArgs = NoCall
    /\ judIn = [query |-> {}, resp_x |-> EmptyResponse, resp_y |-> EmptyResponse]
    /\ judPc = "idle"
    /\ verdict = NoVerdictYet
    /\ verdict2 = NoVerdictYet
    /\ service \in {"up", "down"}
    /\ serviceAtFirst = "up"
    /\ credential \in {"set", "unset"}
    /\ offIn \in OfflineInputs
    /\ offPc = "import"
    /\ offCalls = 0
    /\ offVerdict = NoVerdictYet
    /\ gjData = NoJudgeData
    /\ gjPc = "idle"
    /\ gjExc = ""
    /\ gjResult = NoJudgeResult
    /\ critIn = CritiqueData(NoScores, Missing, Missing, Missing)
    /\ critPc = "idle"
    /\ critOut = NoCritique
    /\ rtJ = <<>>
    /\ rtKind = "none"
    /\ rtText = <<>>
    /\ rtPc = "idle"
    /\ rtAlone = NoResult
    /\ rtWrapped = NoResult
    /\ rows = {}
    /\ clock = 0
    /\ runs = 0
    /\ last_result = 0
    /\ saved_ids = {}
    /\ last_submit_ts = 0
    /\ plQuery = <<>>
    /\ variant = <<>>
    /\ plPc = "idle"
    /\ plRoute = ""
    /\ enhance_mode = ""
    /\ final_prompt = <<>>
    /\ plTrace = <<>>
    /\ loopCalls = <<>>
    /\ plOut = <<>>
    /\ fpRoute = ""
    /\ fpConf = <<0, 0>>
    /\ fpPc = "idle"
    /\ fpRounded = <<0, 0>>
    /\ fpThr = <<0, 0>>
    /\ lockFile = FALSE
    /\ workbook = [rows |-> 0, rated |-> 0]
    /\ xlPc = <<>>
    /\ xlOp = <<>>
    /\ wb = <<>>
    /\ xlExc = <<>>
    /\ xlCalls = 0

SpecOffline == InitOfflineSpec /\ [][NextOffline]_vars

InitJudgePairSpec ==
    /\ txt = <<>>
    /\ recPc = "idle"
    /\ loaded = NoResult
    /\ text = <<>>
    /\ allow_llm = FALSE
    /\ clsPc = "idle"
    /\ genData = NotCalled
    /\ genCalls = 0
    /\ intent = NoVerdict
    /\ polIntent = NoVerdict
    /\ polPc = "idle"
    /\ thr = 0
    /\ original_prompt = <<>>
    /\ rewrite_threshold = 0
    /\ max_rounds = 0
    /\ mode = "full"
    /\ refPc = "idle"
    /\ round = 0
    /\ current = <<>>
    /\ crit = NoCritique
    /\ candidate = <<>>
    /\ trace = <<>>
    /\ callLog = <<>>
    /\ final = <<>>
    /\ exit = ""
    /\ onceArgs = NoCall
    /\ judIn \in OfflineInputs
    /\ judPc = "idle"
    /\ verdict = NoVerdictYet
    /\ verdict2 = NoVerdictYet
    /\ service = "up"
    /\ serviceAtFirst = "up"
    /\ credential = "set"
    /\ offIn = [query |-> {}, resp_x |-> EmptyResponse, resp_y |-> EmptyResponse]
    /\ offPc = "idle"
    /\ offCalls = 0
    /\ offVerdict = NoVerdictYet
    /\ gjData = NoJudgeData
    /\ gjPc = "call"
    /\ gjExc = ""
    /\ gjResult = NoJudgeResult
    /\ critIn = CritiqueData(NoScores, Missing, Missing, Missing)
    /\ critPc = "idle"
    /\ critOut = NoCritique
    /\ rtJ = <<>>
    /\ rtKind = "none"
    /\ rtText = <<>>
    /\ rtPc = "idle"
    /\ rtAlone = NoResult
    /\ rtWrapped = NoResult
    /\ rows = {}
    /\ clock = 0
    /\ runs = 0
    /\ last_result = 0
    /\ saved_ids = {}
    /\ last_submit_ts = 0
    /\ plQuery = <<>>
    /\ variant = <<>>
    /\ plPc = "idle"
    /\ plRoute = ""
    /\ enhance_mode = ""
    /\ final_prompt = <<>>
    /\ plTrace = <<>>
    /\ loopCalls = <<>>
    /\ plOut = <<>>
    /\ fpRoute = ""
    /\ fpConf = <<0, 0>>
    /\ fpPc = "idle"
    /\ fpRounded = <<0, 0>>
    /\ fpThr = <<0, 0>>
    /\ lockFile = FALSE
    /\ workbook = [rows |-> 0, rated |-> 0]
    /\ xlPc = <<>>
    /\ xlOp = <<>>
    /\ wb = <<>>
    /\ xlExc = <<>>
    /\ xlCalls = 0

SpecJudgePair == InitJudgePairSpec /\ [][NextJudgePair]_vars

InitCritiqueSpec ==
    /\ txt = <<>>
    /\ recPc = "idle"
    /\ loaded = NoResult
    /\ text = <<>>
    /\ allow_llm = FALSE
    /\ clsPc = "idle"
    /\ genData = NotCalled
    /\ genCalls = 0
    /\ intent = NoVerdict
    /\ polIntent = NoVerdict
    /\ polPc = "idle"
    /\ thr = 0
    /\ original_prompt = <<>>
    /\ rewrite_threshold = 0
    /\ max_rounds = 0
    /\ mode = "full"
    /\ refPc = "idle"
    /\ round = 0
    /\ current = <<>>
    /\ crit = NoCritique
    /\ candidate = <<>>
    /\ trace = <<>>
    /\ callLog = <<>>
    /\ final = <<>>
    /\ exit = ""
    /\ onceArgs = NoCall
    /\ judIn = [query |-> {}, resp_x |-> EmptyResponse, resp_y |-> EmptyResponse]
    /\ judPc = "idle"
    /\ verdict = NoVerdictYet
    /\ verdict2 = NoVerdictYet
    /\ service = "up"
    /\ serviceAtFirst = "up"
    /\ credential = "set"
    /\ offIn = [query |-> {}, resp_x |-> EmptyResponse, resp_y |-> EmptyResponse]
    /\ offPc = "idle"
    /\ offCalls = 0
    /\ offVerdict = NoVerdictYet
    /\ gjData = NoJudgeData
    /\ gjPc = "idle"
    /\ gjExc = ""
    /\ gjResult = NoJudgeResult
    /\ critIn \in CritiqueInputs
    /\ critPc = "call"
    /\ critOut = NoCritique
    /\ rtJ = <<>>
    /\ rtKind = "none"
    /\ rtText = <<>>
    /\ rtPc = "idle"
    /\ rtAlone = NoResult
    /\ rtWrapped = NoResult
    /\ rows = {}
    /\ clock = 0
    /\ runs = 0
    /\ last_result = 0
    /\ saved_ids = {}
    /\ last_submit_ts = 0
    /\ plQuery = <<>>
    /\ variant = <<>>
    /\ plPc = "idle"
    /\ plRoute = ""
    /\ enhance_mode = ""
    /\ final_prompt = <<>>
    /\ plTrace = <<>>
    /\ loopCalls = <<>>
    /\ plOut = <<>>
    /\ fpRoute = ""
    /\ fpConf = <<0, 0>>
    /\ fpPc = "idle"
    /\ fpRounded = <<0, 0>>
    /\ fpThr = <<0, 0>>
    /\ lockFile = FALSE
    /\ workbook = [rows |-> 0, rated |-> 0]
    /\ xlPc = <<>>
    /\ xlOp = <<>>
    /\ wb = <<>>
    /\ xlExc = <<>>
    /\ xlCalls = 0

SpecCritique == InitCritiqueSpec /\ [][NextCritique]_vars

InitRoundTripSpec ==
    /\ txt = <<>>
    /\ recPc = "idle"
    /\ loaded = NoResult
    /\ text = <<>>
    /\ allow_llm = FALSE
    /\ clsPc = "idle"
    /\ genData = NotCalled
    /\ genCalls = 0
    /\ intent = NoVerdict
    /\ polIntent = NoVerdict
    /\ polPc = "idle"
    /\ thr = 0
    /\ original_prompt = <<>>
    /\ rewrite_threshold = 0
    /\ max_rounds = 0
    /\ mode = "full"
    /\ refPc = "idle"
    /\ round = 0
    /\ current = <<>>
    /\ crit = NoCritique
    /\ candidate = <<>>
    /\ trace = <<>>
    /\ callLog = <<>>
    /\ final = <<>>
    /\ exit = ""
    /\ onceArgs = NoCall
    /\ judIn = [query |-> {}, resp_x |-> EmptyResponse, resp_y |-> EmptyResponse]
    /\ judPc = "idle"
    /\ verdict = NoVerdictYet
    /\ verdict2 = NoVerdictYet
    /\ service = "up"
    /\ serviceAtFirst = "up"
    /\ credential = "set"
    /\ offIn = [query |-> {}, resp_x |-> EmptyResponse, resp_y |-> EmptyResponse]
    /\ offPc = "idle"
    /\ offCalls = 0
    /\ offVerdict = NoVerdictYet
    /\ gjData = NoJudgeData
    /\ gjPc = "idle"
    /\ gjExc = ""
    /\ gjResult = NoJudgeResult
    /\ critIn = CritiqueData(NoScores, Missing, Missing, Missing)
    /\ critPc = "idle"
    /\ critOut = NoCritique
    /\ rtJ \in ObjectTexts
    /\ rtKind \in {"fence", "prose"}
    /\ rtText \in {w.text : w \in {v \in Wrappings(rtJ) : v.kind = rtKind}}
    /\ rtPc = "alone"
    /\ rtAlone = NoResult
    /\ rtWrapped = NoResult
    /\ rows = {}
    /\ clock = 0
    /\ runs = 0
    /\ last_result = 0
    /\ saved_ids = {}
    /\ last_submit_ts = 0
    /\ plQuery = <<>>
    /\ variant = <<>>
    /\ plPc = "idle"
    /\ plRoute = ""
    /\ enhance_mode = ""
    /\ final_prompt = <<>>
    /\ plTrace = <<>>
    /\ loopCalls = <<>>
    /\ plOut = <<>>
    /\ fpRoute = ""
    /\ fpConf = <<0, 0>>
    /\ fpPc = "idle"
    /\ fpRounded = <<0, 0>>
    /\ fpThr = <<0, 0>>
    /\ lockFile = FALSE
    /\ workbook = [rows |-> 0, rated |-> 0]
    /\ xlPc = <<>>
    /\ xlOp = <<>>
    /\ wb = <<>>
    /\ xlExc = <<>>
    /\ xlCalls = 0

SpecRoundTrip == InitRoundTripSpec /\ [][NextRoundTrip]_vars

InitStoreSpec ==
    /\ txt = <<>>
    /\ recPc = "idle"
    /\ loaded = NoResult
    /\ text = <<>>
    /\ allow_llm = FALSE
    /\ clsPc = "idle"
    /\ genData = NotCalled
    /\ genCalls = 0
    /\ intent = NoVerdict
    /\ polIntent = NoVerdict
    /\ polPc = "idle"
    /\ thr = 0
    /\ original_prompt = <<>>
    /\ rewrite_threshold = 0
    /\ max_rounds = 0
    /\ mode = "full"
    /\ refPc = "idle"
    /\ round = 0
    /\ current = <<>>
    /\ crit = NoCritique
    /\ candidate = <<>>
    /\ trace = <<>>
    /\ callLog = <<>>
    /\ final = <<>>
    /\ exit = ""
    /\ onceArgs = NoCall
    /\ judIn = [query |-> {}, resp_x |-> EmptyResponse, resp_y |-> EmptyResponse]
    /\ judPc = "idle"
    /\ verdict = NoVerdictYet
    /\ verdict2 = NoVerdictYet
    /\ service = "up"
    /\ serviceAtFirst = "up"
    /\ credential = "set"
    /\ offIn = [query |-> {}, resp_x |-> EmptyResponse, resp_y |-> EmptyResponse]
    /\ offPc = "idle"
    /\ offCalls = 0
    /\ offVerdict = NoVerdictYet
    /\ gjData = NoJudgeData
    /\ gjPc = "idle"
    /\ gjExc = ""
    /\ gjResult = NoJudgeResult
    /\ critIn = CritiqueData(NoScores, Missing, Missing, Missing)
    /\ critPc = "idle"
    /\ critOut = NoCritique
    /\ rtJ = <<>>
    /\ rtKind = "none"
    /\ rtText = <<>>
    /\ rtPc = "idle"
    /\ rtAlone = NoResult
    /\ rtWrapped = NoResult
    /\ rows = {}
    /\ clock = Cooldown
    /\ runs = 0
    /\ last_result = 0
    /\ saved_ids = {}
    /\ last_submit_ts = 0
    /\ plQuery = <<>>
    /\ variant = <<>>
    /\ plPc = "idle"
    /\ plRoute = ""
    /\ enhance_mode = ""
    /\ final_prompt = <<>>
    /\ plTrace = <<>>
    /\ loopCalls = <<>>
    /\ plOut = <<>>
    /\ fpRoute = ""
    /\ fpConf = <<0, 0>>
    /\ fpPc = "idle"
    /\ fpRounded = <<0, 0>>
    /\ fpThr = <<0, 0>>
    /\ lockFile = FALSE
    /\ workbook = [rows |-> 0, rated |-> 0]
    /\ xlPc = <<>>
    /\ xlOp = <<>>
    /\ wb = <<>>
    /\ xlExc = <<>>
    /\ xlCalls = 0

SpecStore == InitStoreSpec /\ [][NextStore]_vars

InitPipelineSpec ==
    /\ txt = <<>>
    /\ recPc = "idle"
    /\ loaded = NoResult
    /\ text = <<>>
    /\ allow_llm = FALSE
    /\ clsPc = "idle"
    /\ genData = NotCalled
    /\ genCalls = 0
    /\ intent = NoVerdict
    /\ polIntent = NoVerdict
    /\ polPc = "idle"
    /\ thr = 0
    /\ original_prompt = <<>>
    /\ rewrite_threshold = 0
    /\ max_rounds = 0
    /\ mode = "full"
    /\ refPc = "idle"
    /\ round = 0
    /\ current = <<>>
    /\ crit = NoCritique
    /\ candidate = <<>>
    /\ trace = <<>>
    /\ callLog = <<>>
    /\ final = <<>>
    /\ exit = ""
    /\ onceArgs = NoCall
    /\ judIn = [query |-> {}, resp_x |-> EmptyResponse, resp_y |-> EmptyResponse]
    /\ judPc = "idle"
    /\ verdict = NoVerdictYet
    /\ verdict2 = NoVerdictYet
    /\ service = "up"
    /\ serviceAtFirst = "up"
    /\ credential = "set"
    /\ offIn = [query |-> {}, resp_x |-> EmptyResponse, resp_y |-> EmptyResponse]
    /\ offPc = "idle"
    /\ offCalls = 0
    /\ offVerdict = NoVerdictYet
    /\ gjData = NoJudgeData
    /\ gjPc = "idle"
    /\ gjExc = ""
    /\ gjResult = NoJudgeResult
    /\ critIn = CritiqueData(NoScores, Missing, Missing, Missing)
    /\ critPc = "idle"
    /\ critOut = NoCritique
    /\ rtJ = <<>>
    /\ rtKind = "none"
    /\ rtText = <<>>
    /\ rtPc = "idle"
    /\ rtAlone = NoResult
    /\ rtWrapped = NoResult
    /\ rows = {}
    /\ clock = 0
    /\ runs = 0
    /\ last_result = 0
    /\ saved_ids = {}
    /\ last_submit_ts = 0
    /\ plQuery \in Prompts
    /\ variant \in Variants
    /\ plPc = "call"
    /\ plRoute = ""
    /\ enhance_mode = ""
    /\ final_prompt = <<>>
    /\ plTrace = NoTrace
    /\ loopCalls = <<>>
    /\ plOut = NoTrace
    /\ fpRoute = ""
    /\ fpConf = <<0, 0>>
    /\ fpPc = "idle"
    /\ fpRounded = <<0, 0>>
    /\ fpThr = <<0, 0>>
    /\ lockFile = FALSE
    /\ workbook = [rows |-> 0, rated |-> 0]
    /\ xlPc = <<>>
    /\ xlOp = <<>>
    /\ wb = <<>>
    /\ xlExc = <<>>
    /\ xlCalls = 0

SpecPipeline == InitPipelineSpec /\ [][NextPipeline]_vars

InitFloatPolicySpec ==
    /\ txt = <<>>
    /\ recPc = "idle"
    /\ loaded = NoResult
    /\ text = <<>>
    /\ allow_llm = FALSE
    /\ clsPc = "idle"
    /\ genData = NotCalled
    /\ genCalls = 0
    /\ intent = NoVerdict
    /\ polIntent = NoVerdict
    /\ polPc = "idle"
    /\ thr = 0
    /\ original_prompt = <<>>
    /\ rewrite_threshold = 0
    /\ max_rounds = 0
    /\ mode = "full"
    /\ refPc = "idle"
    /\ round = 0
    /\ current = <<>>
    /\ crit = NoCritique
    /\ candidate = <<>>
    /\ trace = <<>>
    /\ callLog = <<>>
    /\ final = <<>>
    /\ exit = ""
    /\ onceArgs = NoCall
    /\ judIn = [query |-> {}, resp_x |-> EmptyResponse, resp_y |-> EmptyResponse]
    /\ judPc = "idle"
    /\ verdict = NoVerdictYet
    /\ verdict2 = NoVerdictYet
    /\ service = "up"
    /\ serviceAtFirst = "up"
    /\ credential = "set"
    /\ offIn = [query |-> {}, resp_x |-> EmptyResponse, resp_y |-> EmptyResponse]
    /\ offPc = "idle"
    /\ offCalls = 0
    /\ offVerdict = NoVerdictYet
    /\ gjData = NoJudgeData
    /\ gjPc = "idle"
    /\ gjExc = ""
    /\ gjResult = NoJudgeResult
    /\ critIn = CritiqueData(NoScores, Missing, Missing, Missing)
    /\ critPc = "idle"
    /\ critOut = NoCritique
    /\ rtJ = <<>>
    /\ rtKind = "none"
    /\ rtText = <<>>
    /\ rtPc = "idle"
    /\ rtAlone = NoResult
    /\ rtWrapped = NoResult
    /\ rows = {}
    /\ clock = 0
    /\ runs = 0
    /\ last_result = 0
    /\ saved_ids = {}
    /\ last_submit_ts = 0
    /\ plQuery = <<>>
    /\ variant = <<>>
    /\ plPc = "idle"
    /\ plRoute = ""
    /\ enhance_mode = ""
    /\ final_prompt = <<>>
    /\ plTrace = <<>>
    /\ loopCalls = <<>>
    /\ plOut = <<>>
    /\ fpRoute \in Routes
    /\ fpConf \in {c \in (0..FloatOne) \X (0..FloatOne) : c[1] <= c[2]}
    /\ fpPc = "lower"
    /\ fpRounded = <<0, 0>>
    /\ fpThr = <<0, 0>>
    /\ lockFile = FALSE
    /\ workbook = [rows |-> 0, rated |-> 0]
    /\ xlPc = <<>>
    /\ xlOp = <<>>
    /\ wb = <<>>
    /\ xlExc = <<>>
    /\ xlCalls = 0

SpecFloatPolicy == InitFloatPolicySpec /\ [][NextFloatPolicy]_vars

InitLoggerSpec ==
    /\ txt = <<>>
    /\ recPc = "idle"
    /\ loaded = NoResult
    /\ text = <<>>
    /\ allow_llm = FALSE
    /\ clsPc = "idle"
    /\ genData = NotCalled
    /\ genCalls = 0
    /\ intent = NoVerdict
    /\ polIntent = NoVerdict
    /\ polPc = "idle"
    /\ thr = 0
    /\ original_prompt = <<>>
    /\ rewrite_threshold = 0
    /\ max_rounds = 0
    /\ mode = "full"
    /\ refPc = "idle"
    /\ round = 0
    /\ current = <<>>
    /\ crit = NoCritique
    /\ candidate = <<>>
    /\ trace = <<>>
    /\ callLog = <<>>
    /\ final = <<>>
    /\ exit = ""
    /\ onceArgs = NoCall
    /\ judIn = [query |-> {}, resp_x |-> EmptyResponse, resp_y |-> EmptyResponse]
    /\ judPc = "idle"
    /\ verdict = NoVerdictYet
    /\ verdict2 = NoVerdictYet
    /\ service = "up"
    /\ serviceAtFirst = "up"
    /\ credential = "set"
    /\ offIn = [query |-> {}, resp_x |-> EmptyResponse, resp_y |-> EmptyResponse]
    /\ offPc = "idle"
    /\ offCalls = 0
    /\ offVerdict = NoVerdictYet
    /\ gjData = NoJudgeData
    /\ gjPc = "idle"
    /\ gjExc = ""
    /\ gjResult = NoJudgeResult
    /\ critIn = CritiqueData(NoScores, Missing, Missing, Missing)
    /\ critPc = "idle"
    /\ critOut = NoCritique
    /\ rtJ = <<>>
    /\ rtKind = "none"
    /\ rtText = <<>>
    /\ rtPc = "idle"
    /\ rtAlone = NoResult
    /\ rtWrapped = NoResult
    /\ rows = {}
    /\ clock = 0
    /\ runs = 0
    /\ last_result = 0
    /\ saved_ids = {}
    /\ last_submit_ts = 0
    /\ plQuery = <<>>
    /\ variant = <<>>
    /\ plPc = "idle"
    /\ plRoute = ""
    /\ enhance_mode = ""
    /\ final_prompt = <<>>
    /\ plTrace = <<>>
    /\ loopCalls = <<>>
    /\ plOut = <<>>
    /\ fpRoute = ""
    /\ fpConf = <<0, 0>>
    /\ fpPc = "idle"
    /\ fpRounded = <<0, 0>>
    /\ fpThr = <<0, 0>>
    /\ lockFile = FALSE
    /\ workbook = [rows |-> 0, rated |-> 0]
    /\ xlPc = [p \in Callers |-> "idle"]
    /\ xlOp = [p \in Callers |-> "append_run"]
    /\ wb = [p \in Callers |-> EmptyWorkbook]
    /\ xlExc = [p \in Callers |-> ""]
    /\ xlCalls = 0

SpecLogger == InitLoggerSpec /\ [][NextLogger]_vars

\* the loop runs to its end: each generation call returns or raises
SpecRefineFair == SpecRefine /\ WF_vars(NextRefine)

---------------------------------------------------------------------------
(* Properties of the JSON recoverer, gemini_client.py *)

\* C1: for every input text _safe_json_load returns without raising, and what
\* it returns is either the mapping parsed from the candidate or an error
\* record whose only keys are error and raw_text, raw_text being a prefix of
\* at most 4000 characters of the trimmed input.
SafeJsonLoadNeverRaises ==
    recPc \in {"returned", "raised"} =>
        /\ recPc = "returned"
        /\ \/ loaded.kind = "parsed"
           \/ /\ loaded.kind = "error"
              /\ loaded.keys = {"error", "raw_text"}
              /\ Len(loaded.raw_text) <= RawTextCap
              /\ loaded.raw_text = SubSeq(Strip(txt), 1, Len(loaded.raw_text))

---------------------------------------------------------------------------
(* Properties of the intent router, intent_classifier.py *)

\* a raw route value that names no route, whatever its case and the blanks
\* around it
OutOfSet(x) ==
    \/ x.k # "str"
    \/ \A r \in Routes : Upper(Strip(x.s)) # RouteChars(r)

\* C2: the route classify_intent returns is always one of SOCIAL, QA, TASK,
\* TECH, CREATIVE; a route of the generation service that is absent or outside
\* the set becomes QA, and one that names a route is kept.
RouteIsOneOfFive ==
    clsPc = "returned" =>
        /\ intent.route \in {"SOCIAL", "QA", "TASK", "TECH", "CREATIVE"}
        /\ genData.kind = "raise" => intent.route = "QA"
        /\ (genData.kind = "dict" /\ OutOfSet(genData.route)) => intent.route = "QA"
        /\ \A r \in Routes :
              (genData.kind = "dict" /\ genData.route = Str(RouteChars(r)))
                  => intent.route = r

\* a route outside the set came back from the generation service and became QA
RouteCoerced ==
    /\ clsPc = "returned"
    /\ genData.kind = "dict"
    /\ genData.route = Str(<<"B", "O", "G", "U", "S">>)
    /\ intent.route = "QA"

\* the raw confidence is a JSON number
IsNumber(x) == x.k \in {"num", "huge", "inf"}

\* the value of a JSON number against the bounds 0 and 1: -1 below, 1 above
SideOf(x) ==
    IF x.k = "num" THEN (IF x.n < 0 THEN -1 ELSE IF x.n > ConfScale THEN 1 ELSE 0)
    ELSE x.n

\* C3 as stated: the confidence is in [0, 1]; a raw value that is not a
\* number (a string, a boolean, null, a list), NaN or missing gives exactly
\* 0.5; a number out of range is clamped to the nearer bound.
ConfidenceDefaultsOrClamps ==
    (clsPc = "returned" /\ genData.kind = "dict") =>
        LET raw == genData.confidence IN
        /\ intent.confidence \in 0..ConfScale
        /\ ~IsNumber(raw) => intent.confidence = 50
        /\ (IsNumber(raw) /\ SideOf(raw) = 1) => intent.confidence = ConfScale
        /\ (IsNumber(raw) /\ SideOf(raw) = -1) => intent.confidence = 0
        /\ (IsNumber(raw) /\ SideOf(raw) = 0) => intent.confidence = raw.n

\* the raw values float() converts to a number: JSON numbers a float can hold
\* (the infinities included), booleans, and decimal texts
Converts(x) ==
    \/ x.k \in {"num", "inf", "bool"}
    \/ /\ x.k = "str"
       /\ FloatOf(x).ok
       /\ ~FloatOf(x).nan

\* C3 amended: the confidence is in [0, 1]; a raw value float() cannot
\* convert (a text that is no number, null, a list, an integer too large for
\* a float), NaN and a missing value give exactly 0.5; every value float()
\* converts (a number, a boolean, a decimal text, an infinity) is clamped to
\* the nearer bound when out of range and kept when in range.
ConfidenceInUnitInterval ==
    (clsPc = "returned" /\ genData.kind = "dict") =>
        LET raw == genData.confidence
            f == FloatOf(raw)
        IN
        /\ intent.confidence >= 0
        /\ intent.confidence <= ConfScale
        /\ ~Converts(raw) => intent.confidence = 50
        /\ raw.k = "huge" => intent.confidence = 50
        /\ (Converts(raw) /\ (f.inf = 1 \/ f.v > ConfScale)) => intent.confidence = ConfScale
        /\ (Converts(raw) /\ (f.inf = -1 \/ f.v < 0)) => intent.confidence = 0
        /\ (Converts(raw) /\ f.inf = 0 /\ f.v >= 0 /\ f.v <= ConfScale)
              => intent.confidence = f.v
        /\ raw = Raw("bool", <<>>, 1) => intent.confidence = ConfScale
        /\ raw = Str(<<"0", ".", "7">>) => intent.confidence = 70
        /\ raw = Str(<<SP, "1", ".", "5">>) => intent.confidence = ConfScale

\* an integer too large for a float came back and the confidence is 0.5
HugeIntegerDefaults ==
    /\ clsPc = "returned"
    /\ genData.kind = "dict"
    /\ genData.confidence = Raw("huge", <<>>, 1)
    /\ intent.confidence = 50

---------------------------------------------------------------------------
(* Properties of the refinement loop, rewriter.py *)

\* the last entry of the trace
LastEntry == trace[Len(trace)]

\* C4: for every max_rounds >= 0 a call of self_refine_rewrite ends: it
\* returns, CONVERGED or EXHAUSTED, unless a generation call raised; it is
\* EXHAUSTED only when max_rounds rounds were used up, and it then returns the
\* text the last round produced.
LoopTerminates ==
    /\ <>(refPc \in {"done", "raised"})
    /\ [](refPc = "raised" => callLog # <<>>)
    /\ [](refPc = "done" =>
            /\ exit \in {"CONVERGED", "EXHAUSTED"}
            /\ exit = "EXHAUSTED" =>
                  /\ Len(trace) = max_rounds
                  /\ final = current
                  /\ max_rounds = 0 => final = StripText(original_prompt))

\* a run of two rounds ended EXHAUSTED after its total went down
ExhaustedAfterDecrease ==
    /\ refPc = "done"
    /\ exit = "EXHAUSTED"
    /\ Len(trace) = 2
    /\ trace[2].total < trace[1].total

\* C5: the trace only grows by appending, it never holds more than
\* max_rounds entries, and its k-th entry has round index k.
TraceIsAppendOnly ==
    /\ [](Len(trace) <= max_rounds)
    /\ [](\A k \in 1..Len(trace) : trace[k].round = k)
    /\ [][/\ Len(trace') >= Len(trace)
          /\ Len(trace') <= Len(trace) + 1
          /\ SubSeq(trace', 1, Len(trace)) = trace]_vars

\* the trace is full: one entry for each of two rounds
TraceFull ==
    /\ max_rounds = 2
    /\ Len(trace) = 2
    /\ trace[2].round = 2

\* C6: in a round whose current text is SOCIAL by the deterministic rules the
\* text carried into the next round, and the final text, is that text
\* unchanged, whatever the generation calls return.
SocialCarriedUnchanged ==
    [][(refPc \in {"rewrite", "revise", "revising"} /\ DeterministicRoute(current) = "SOCIAL")
          => current' = current]_vars

\* the number of calls of one kind in the call log
CallsOf(kind) == Cardinality({i \in 1..Len(callLog) : callLog[i] = kind})

\* C7: the loop stops at the first round whose total reaches the threshold,
\* the comparison being inclusive; no rewrite and no edit call is made in or
\* after that round; the final text is the prompt of the last trace entry; a
\* round below the threshold ends the loop only if it is round max_rounds.
StopsAtFirstConvergedRound ==
    /\ \A k \in 1..(Len(trace) - 1) : trace[k].total < rewrite_threshold
    /\ (trace # <<>> /\ LastEntry.total >= rewrite_threshold) =>
          /\ refPc = "done"
          /\ exit = "CONVERGED"
          /\ final = LastEntry.prompt
          /\ callLog[Len(callLog)] = "critique"
          /\ CallsOf("critique") = Len(trace)
          /\ CallsOf("revise") = Len(trace) - 1
          /\ CallsOf("rewrite") <= Len(trace) - 1
    /\ (refPc = "done" /\ trace # <<>> /\ LastEntry.total < rewrite_threshold) =>
          /\ Len(trace) = max_rounds
          /\ exit = "EXHAUSTED"

\* the first of two rounds met the threshold exactly and the loop stopped
ConvergedOnEquality ==
    /\ refPc = "done"
    /\ exit = "CONVERGED"
    /\ max_rounds = 2
    /\ Len(trace) = 1
    /\ trace[1].total = rewrite_threshold
    /\ callLog = <<"critique">>

---------------------------------------------------------------------------
(* Properties of the heuristic judge, judge.py *)

\* the sum of the four axis scores of one side of a verdict
SideTotal(block) == block.intent + block.clarity + block.structure + block.safety

\* the winner with the two sides exchanged
Exchanged(winner) ==
    CASE winner = "X" -> "Y"
      [] winner = "Y" -> "X"
      [] OTHER -> winner

\* C8: with sx and sy the sums of the four axis scores of X and of Y, the
\* winner is tie exactly when |sx - sy| <= 1, X exactly when sx - sy > 1 and
\* Y exactly when sy - sx > 1; judging the two responses in the other order
\* exchanges X and Y and keeps a tie.
WinnerFollowsTotals ==
    judPc # "first" =>
        LET sx == SideTotal(verdict.X)
            sy == SideTotal(verdict.Y)
            other == heuristic_judge_pair(judIn.query, judIn.resp_y, judIn.resp_x)
        IN
        /\ verdict.winner \in {"X", "Y", "tie"}
        /\ verdict.winner = "tie" <=> (sx - sy <= 1 /\ sy - sx <= 1)
        /\ verdict.winner = "X" <=> sx - sy > 1
        /\ verdict.winner = "Y" <=> sy - sx > 1
        /\ other.winner = Exchanged(verdict.winner)
        /\ other.X = verdict.Y
        /\ other.Y = verdict.X

\* the totals differ by exactly one and the verdict is a tie
TieAtDifferenceOne ==
    /\ judPc # "first"
    /\ SideTotal(verdict.Y) - SideTotal(verdict.X) = 1
    /\ verdict.winner = "tie"

---------------------------------------------------------------------------
(* Properties of the threshold policy, intent_classifier.py *)

\* base * conf + 9 * (1 - conf), in hundredths
Blend(base) == base * polIntent.confidence + 9 * (ConfScale - polIntent.confidence)

---------------------------------------------------------------------------
(* Properties of the judge module used offline, judge.py *)

\* C11: the heuristic judge is usable offline: with the generation service
\* unavailable, and also with no credential configured, heuristic_judge_pair
\* can be reached and returns a verdict, making no generation call.
HeuristicJudgeUsableOffline ==
    /\ offPc # "import_failed"
    /\ offCalls = 0
    /\ offPc = "returned" => offVerdict.winner \in {"X", "Y", "tie"}

---------------------------------------------------------------------------
(* Properties of the generative judge, judge.py *)

\* C12: when the generation call returns text (no transport failure), be the
\* text malformed or a JSON object lacking X, Y, winner or reason, judge_pair
\* does not raise; only a transport failure leaves it as an exception.
OnlyTransportFaultsPropagate ==
    gjPc = "raised" => (gjData.kind = "raise" /\ gjExc = "TransportError")

\* C16: the winner of every verdict judge_pair returns is X, Y or tie,
\* whatever the generation service returned.
GenerativeWinnerIsXYOrTie ==
    gjPc = "returned" =>
        gjResult.winner \in {Str(<<"X">>), Str(<<"Y">>), Str(<<"t", "i", "e">>)}

---------------------------------------------------------------------------
(* Properties of the router's fallback, intent_classifier.py *)

\* a value that is no mapping, as generate_json would have to return it for
\* line 112 to apply
NonMapping ==
    [kind |-> "list", exc |-> "", error |-> FALSE,
     route |-> Missing, confidence |-> Missing, reason |-> Missing]

\* C13: when no rule matched and the fallback is allowed, a generation call
\* that raises makes classify_intent return QA with confidence 0.3 and a
\* reason naming the exception type; a value that is no mapping gives QA, 0.3
\* and the reason "llm returned non-dict"; classify_intent itself never
\* raises.
FallbackFailureGivesQA ==
    /\ clsPc \in {"idle", "call", "returned"}
    /\ (clsPc = "returned" /\ genData.kind = "raise") =>
          /\ rule_route(text) = NoVerdict
          /\ allow_llm
          /\ intent.route = "QA"
          /\ intent.confidence = 30
          /\ intent.reason.id = "llm classify failed"
          /\ intent.reason.chars = <<genData.exc>>
    /\ FromFallback(NonMapping).route = "QA"
    /\ FromFallback(NonMapping).confidence = 30
    /\ FromFallback(NonMapping).reason.id = "llm returned non-dict"

\* the generation call raised and classify_intent returned QA at 0.3
FallbackRaisedAndReturned ==
    /\ clsPc = "returned"
    /\ genData.kind = "raise"
    /\ genData.exc = "TransportError"
    /\ intent.route = "QA"
    /\ intent.confidence = 30

---------------------------------------------------------------------------
(* Properties of the critique normalisation, rewriter.py *)

\* the axes of the rubric
RubricAxes == {"intent", "clarity", "structure", "safety"}

\* the axes a CritiqueResult is keyed by
AxesOf(scores) == {scores[i].axis : i \in 1..Len(scores)}

\* C14: every score of a CritiqueResult lies in the rubric range 0..5, so the
\* total compared with the threshold lies between 0 and 5 times the number of
\* axes, whatever the generator wrote (negative, huge, not a number).
ScoresAreClamped ==
    critPc = "returned" =>
        /\ \A i \in 1..Len(critOut.scores) : critOut.scores[i].v \in 0..5
        /\ SumScores(critOut.scores) >= 0
        /\ SumScores(critOut.scores) <= 5 * Len(critOut.scores)

\* C15: the scores of every CritiqueResult are keyed only by the rubric axes
\* intent, clarity, structure, safety; when the scores field is missing or is
\* no mapping, the result holds the all-zero rubric over these four axes.
ScoresKeyedByRubricAxes ==
    critPc = "returned" =>
        /\ AxesOf(critOut.scores) \subseteq RubricAxes
        /\ critIn.scores.k # "dict" =>
              /\ AxesOf(critOut.scores) = RubricAxes
              /\ \A i \in 1..Len(critOut.scores) : critOut.scores[i].v = 0

---------------------------------------------------------------------------
(* Round trips through the JSON recoverer, gemini_client.py *)

\* C17: for every well-formed JSON object J, recovering J wrapped in a fenced
\* block, its opening line bare or carrying a language tag, returns the
\* mapping that recovering J alone returns.
FenceRoundTrip ==
    (rtPc = "done" /\ rtKind = "fence") =>
        /\ rtAlone.kind = "parsed"
        /\ rtWrapped.kind = "parsed"
        /\ rtWrapped.val = rtAlone.val
        /\ rtWrapped = rtAlone

\* a tagged fence around an object whose string value holds a brace
FencedObjectRecovered ==
    /\ rtPc = "done"
    /\ rtKind = "fence"
    /\ rtJ = <<"{", DQ, "a", DQ, ":", DQ, "}", DQ, "}">>
    /\ rtText = <<BQ, BQ, BQ, "a", NL>> \o rtJ \o <<NL, BQ, BQ, BQ>>
    /\ rtWrapped.kind = "parsed"

\* C18: for every well-formed JSON object J, string values holding braces or
\* brackets included, and every prose before and after it that holds no brace
\* and no bracket, recovering prose + J + prose returns the mapping that
\* parsing J alone returns.
ProseRoundTrip ==
    (rtPc = "done" /\ rtKind = "prose") =>
        /\ rtAlone.kind = "parsed"
        /\ rtWrapped = rtAlone

---------------------------------------------------------------------------
(* Properties of the router's generation calls, intent_classifier.py *)

\* C19: classify_intent makes a generation call only when no deterministic
\* rule matched and the fallback is allowed, and then exactly one; with a
\* deterministic verdict it returns that verdict, and in deterministic-only
\* mode an unmatched text gives QA with confidence 0.4, both without a call.
GenerationOnlyAsFallback ==
    /\ genCalls \in {0, 1}
    /\ clsPc = "call" => genCalls = 0
    /\ genCalls = 0 => genData.kind = "none"
    /\ clsPc = "returned" =>
          /\ genCalls = 1 <=> (rule_route(text) = NoVerdict /\ allow_llm)
          /\ rule_route(text) # NoVerdict => intent = rule_route(text)
          /\ (rule_route(text) = NoVerdict /\ ~allow_llm) =>
                /\ intent.route = "QA"
                /\ intent.confidence = 40

\* an unmatched text in deterministic-only mode: QA at 0.4, no call made
DeterministicOnlyDefault ==
    /\ clsPc = "returned"
    /\ ~allow_llm
    /\ rule_route(text) = NoVerdict
    /\ text = <<"cat">>
    /\ intent.route = "QA"
    /\ intent.confidence = 40
    /\ genCalls = 0

---------------------------------------------------------------------------
(* Properties of the reasons attached to substituted defaults *)

\* the recovered record is an error record, or lacks route or confidence
DefaultsSubstituted(data) ==
    /\ data.kind = "dict"
    /\ data.error \/ data.route.k = "missing" \/ data.confidence.k = "missing"

\* records whose route and confidence are valid generator fields
ValidRecords ==
    {Mapping(FALSE, Str(RouteChars(r)), Num(c), w) :
        r \in Routes, c \in {0, 50, ConfScale}, w \in ReasonRaw}

\* C20: when classify_intent substitutes defaults for malformed generator
\* output (an error record, or a record lacking route or confidence), the
\* reason it returns says so: it is not a reason that a result built from
\* valid generator fields carries.
DefaultsAreAnnotated ==
    (clsPc = "returned" /\ DefaultsSubstituted(genData)) =>
        \A valid \in ValidRecords : intent.reason # FromFallback(valid).reason

---------------------------------------------------------------------------
(* Failures of the generation service inside the refinement loop *)

\* C21: a generation call that raises inside a round (critique, rewrite or
\* edit application) is not attempted again: every round makes each call at
\* most once, the exception leaves self_refine_rewrite, nothing runs after it
\* and no (final text, trace) result is returned.
FailureIsHardStop ==
    /\ [](/\ CallsOf("critique") = round
          /\ CallsOf("rewrite") <= round
          /\ CallsOf("revise") <= round)
    /\ [](refPc = "raised" =>
            /\ callLog # <<>>
            /\ exit = ""
            /\ final = <<>>)
    /\ [][refPc = "raised" => refVars' = refVars]_vars

\* the edit application of the first round raised after the critique and the
\* rewrite had returned
EditApplicationFailed ==
    /\ refPc = "raised"
    /\ callLog = <<"critique", "rewrite", "revise">>
    /\ Len(trace) = 1
    /\ exit = ""

---------------------------------------------------------------------------
(* Claims about the comparison store *)

OneRowPerId ==
    \A r1 \in rows, r2 \in rows : r1.comparison_id = r2.comparison_id => r1 = r2

\* C22: saving a comparison is idempotent on its identifier: the store never
\* holds two rows with one comparison_id, and saving a comparison that is
\* already stored leaves the stored rows as they are
SaveIsIdempotent ==
    /\ [](OneRowPerId)
    /\ [][\A r \in rows : r \in rows']_vars

---------------------------------------------------------------------------
(* Claims about run_pipeline *)

\* C23: with a variant other than BASELINE, a SOCIAL route gives the mode NONE,
\* no call of the loop, no trace and the trimmed query as the enhanced prompt;
\* any other route gives one call of the loop, with the mode light for QA when
\* the variant includes A and the mode full otherwise
SocialPassesThrough ==
    (plPc = "returned" /\ Upper(variant) # BASELINE) =>
        IF plRoute = "SOCIAL"
        THEN /\ plOut.enhance_mode = "NONE"
             /\ loopCalls = <<>>
             /\ plOut.trace = NoTrace
             /\ plOut.enhanced_prompt = StripText(plQuery)
        ELSE loopCalls = << IF plRoute = "QA" /\ (\E i \in 1..Len(variant) : variant[i] \in {"A", "a"})
                            THEN "light" ELSE "full" >>

SocialAnsweredAsIs ==
    /\ plPc = "returned"
    /\ plRoute = "SOCIAL"
    /\ variant = <<"B", "C">>
    /\ plQuery = <<WS, "cat", WS>>
    /\ plOut.enhanced_prompt = <<"cat">>

---------------------------------------------------------------------------
(* Claims about the order of the rules *)

Gives(r, c) == intent.route = r /\ intent.confidence = c

ShortGreeting(t) == SocialMatch(t) /\ CharLen(t) <= 12

SmallTalk(t) == SocialMatch(t) /\ WordCount(t) <= 8

Interrogative(t) == Search({"?"}, t) \/ Search(WhWords, t)

\* no rule decided: the result is the default without the service, or the
\* service was called
Undecided ==
    IF allow_llm THEN genCalls = 1 ELSE intent.reason = Literal("default QA (no llm)")

\* C24: the deterministic stage gives the verdict of the first rule that
\* matches, in the order blank (SOCIAL 0.6), greeting of at most 12 characters
\* (SOCIAL 0.95), greeting of at most 8 tokens (SOCIAL 0.9), technical keyword
\* (TECH 0.85), creative keyword (CREATIVE 0.75), task verb (TASK 0.7),
\* question mark or wh-word (QA 0.65), and no verdict otherwise
FirstMatchingRuleDecides ==
    clsPc = "returned" =>
        LET t == StripText(text)
            greeting == ShortGreeting(t) \/ SmallTalk(t)
            tech == Search(TechWords, t)
            creative == Search(CreativeWords, t)
            task == Search(TaskWords, t)
        IN  /\ t = <<>> => Gives("SOCIAL", 60)
            /\ (t # <<>> /\ ShortGreeting(t)) => Gives("SOCIAL", 95)
            /\ (t # <<>> /\ ~ShortGreeting(t) /\ SmallTalk(t)) => Gives("SOCIAL", 90)
            /\ (t # <<>> /\ ~greeting /\ tech) => Gives("TECH", 85)
            /\ (t # <<>> /\ ~greeting /\ ~tech /\ creative) => Gives("CREATIVE", 75)
            /\ (t # <<>> /\ ~greeting /\ ~tech /\ ~creative /\ task) => Gives("TASK", 70)
            /\ (t # <<>> /\ ~greeting /\ ~tech /\ ~creative /\ ~task /\ Interrogative(t))
                 => Gives("QA", 65)
            /\ (t # <<>> /\ ~greeting /\ ~tech /\ ~creative /\ ~task /\ ~Interrogative(t))
                 => Undecided
            /\ (genCalls = 0 /\ Gives("QA", 65)) => ~task

\* a greeting of ten tokens that ends in a task verb is decided by the task rule
LongGreetingFallsThrough ==
    /\ clsPc = "returned"
    /\ text = Append(Greeting(8), "write")
    /\ Gives("TASK", 70)

---------------------------------------------------------------------------
(* Claims about the delimiter scan *)

\* the scan as the claim has it: a closer that does not match the top of the
\* stack leaves the stack as it is
RECURSIVE ScanLeavingStack(_, _, _)
ScanLeavingStack(s, idx, stack) ==
    IF idx > Len(s) THEN 0
    ELSE IF s[idx] \in Openers THEN ScanLeavingStack(s, idx + 1, Append(stack, s[idx]))
    ELSE IF s[idx] \in Closers /\ stack # <<>> /\ Matches(stack[Len(stack)], s[idx])
    THEN IF Len(stack) = 1 THEN idx
         ELSE ScanLeavingStack(s, idx + 1, SubSeq(stack, 1, Len(stack) - 1))
    ELSE ScanLeavingStack(s, idx + 1, stack)

\* the text reaches the scan: it is not empty, not already clean, and has an opener
Scanned(s) ==
    /\ s # <<>>
    /\ ~(StartsWith(s, <<"{">>) /\ EndsWith(s, <<"}">>))
    /\ ~(StartsWith(s, <<"[">>) /\ EndsWith(s, <<"]">>))
    /\ {Find(s, "{"), Find(s, "[")} # {0}

EarliestOpener(s) == MinStart({Find(s, "{"), Find(s, "[")} \ {0})

\* C25: in the scan from the earliest opener a closer that does not match the
\* top of the stack is ignored, the stack staying as it is, and the candidate
\* runs from the start to the first offset at which the stack is empty, or to
\* the end of the text when it never is
MismatchedCloserIgnored ==
    (recPc # "call" /\ Scanned(strip_code_fences(txt))) =>
        LET s == strip_code_fences(txt)
        IN  extract_json_object(txt)
              = CandidateFrom(s, EarliestOpener(s), ScanLeavingStack(s, EarliestOpener(s), <<>>))

---------------------------------------------------------------------------
(* Claims about the weakest axis and the edit of a critique *)

CanonicalOrder == <<"intent", "clarity", "structure", "safety">>

LeastValue(scores) ==
    CHOOSE v \in {scores[i].v : i \in 1..Len(scores)} :
        \A i \in 1..Len(scores) : v <= scores[i].v

\* the axes of scores that hold the least value
MinimalAxes(scores) == {scores[i].axis : i \in {j \in 1..Len(scores) : scores[j].v = LeastValue(scores)}}

\* the first axis of the canonical order among the minimal ones
CanonicalArgMin(scores) ==
    CanonicalOrder[CHOOSE i \in 1..4 :
                      /\ CanonicalOrder[i] \in MinimalAxes(scores)
                      /\ \A j \in 1..(i - 1) : CanonicalOrder[j] \notin MinimalAxes(scores)]

\* the generator's weakest is missing, not a text, blank, or no axis of scores
InvalidWeakest(x, scores) ==
    \/ x.k # "str"
    \/ StripText(x.s) = <<>>
    \/ Len(StripText(x.s)) # 1
    \/ StripText(x.s)[1] \notin AxesOf(scores)

\* C26: the weakest of every CritiqueResult names an axis of its scores that
\* holds the least value; a weakest that is missing, not a text, blank or no
\* axis of the scores is replaced by the arg-min axis, ties going to the first
\* of intent, clarity, structure, safety
WeakestIsArgMin ==
    critPc = "returned" =>
        /\ Len(critOut.weakest) = 1
        /\ critOut.weakest[1] \in MinimalAxes(critOut.scores)
        /\ (InvalidWeakest(critIn.weakest, critOut.scores)
              /\ AxesOf(critOut.scores) \subseteq RubricAxes)
             => critOut.weakest = <<CanonicalArgMin(critOut.scores)>>

\* the edit reads as raw JSON: it opens with a brace or a bracket
LooksLikeJson(chars) == chars # <<>> /\ chars[1] \in {"{", "["}

\* C27: the edit of every CritiqueResult is the fixed generic instruction when
\* the generator's edit is missing, blank, not a text or reads as raw JSON, and
\* the generator's edit, trimmed, otherwise
EditIsGenericOrTrimmed ==
    critPc = "returned" =>
        critOut.edit =
            IF critIn.edit.k # "str" \/ StripText(critIn.edit.s) = <<>>
               \/ LooksLikeJson(StripText(critIn.edit.s))
            THEN DefaultEdit
            ELSE StripText(critIn.edit.s)

---------------------------------------------------------------------------
(* Claims about the generation calls of the loop *)

LastCall == IF callLog = <<>> THEN "" ELSE callLog[Len(callLog)]

\* each call follows the one the round puts before it
InRoundOrder ==
    \A i \in 1..Len(callLog) :
        /\ callLog[i] = "critique" => (i = 1 \/ callLog[i - 1] = "revise")
        /\ callLog[i] = "rewrite" => (i > 1 /\ callLog[i - 1] = "critique")
        /\ callLog[i] = "revise" => (i > 1 /\ callLog[i - 1] \in {"critique", "rewrite"})

\* C28: in a round that has not converged the calls are the critique, the
\* structural rewrite (none for a SOCIAL text) and the edit application, in
\* this order; the edit application receives the candidate of the structural
\* rewrite and the critique of the same round; a run makes at most
\* 3 * max_rounds calls, and with max_rounds = 0 none, returning the trimmed
\* original and an empty trace
CallsInRoundOrder ==
    /\ [](InRoundOrder /\ Len(callLog) <= 3 * max_rounds)
    /\ []((refPc = "done" /\ max_rounds = 0)
            => (callLog = <<>> /\ trace = <<>> /\ final = StripText(original_prompt)))
    /\ [][callLog' = Append(callLog, "rewrite") => DeterministicRoute(current) # "SOCIAL"]_vars
    /\ [][(callLog' = Append(callLog, "revise") /\ LastCall = "critique")
             => DeterministicRoute(current) = "SOCIAL"]_vars
    /\ [][callLog' = Append(callLog, "revise")
             => /\ onceArgs'.original_prompt = candidate
                /\ Len(trace) = round
                /\ onceArgs'.critique.edit = trace[round].edit
                /\ onceArgs'.critique.scores = trace[round].scores]_vars

\* a SOCIAL text is revised right after its critique, a rewritten one after
\* its rewrite
SocialRoundSkipsRewrite ==
    /\ refPc = "revising"
    /\ callLog = <<"critique", "revise", "critique", "rewrite", "revise">>
    /\ onceArgs.original_prompt # <<>>

---------------------------------------------------------------------------
(* Claims about the threshold as a function of the confidence *)

\* C29: for every route and every confidence in [0, 1] the threshold is an
\* integer of 9..20, a lower confidence never gives a higher threshold for
\* the same route, and the clamp to 4..20 leaves the rounded value as it is
ThresholdMonotoneInConfidence ==
    fpPc = "done" =>
        /\ fpThr[1] \in 9..20 /\ fpThr[2] \in 9..20
        /\ fpThr = fpRounded
        /\ fpThr[1] <= fpThr[2]

---------------------------------------------------------------------------
(* Claims about the lock of the workbook *)

AllReturned == \A p \in Callers : xlPc[p] \in {"idle", "returned", "raised"}

\* C30: under any interleaving of the three functions on one path at most one
\* caller holds the lock file at a time, and only the holder loads and saves
\* the workbook; a caller that finds the lock held raises and leaves the
\* workbook as it is; every holder releases the lock on return and on an
\* exception, so the lock is free once all callers have returned
LockIsExclusive ==
    /\ [](/\ Cardinality(Holders) <= 1
          /\ lockFile <=> Holders # {}
          /\ AllReturned => ~lockFile)
    /\ [][workbook' # workbook => \E p \in Callers : Holders = {p} /\ workbook' = wb'[p]]_vars
    /\ [][\A p \in Callers :
            /\ wb'[p] # wb[p] => Holders = {p}
            /\ (xlPc[p] = "call" /\ xlPc'[p] # "call" /\ Holders # {}) =>
                  (xlPc'[p] = "raised" /\ workbook' = workbook /\ wb' = wb)
            /\ (p \in Holders /\ xlPc'[p] \in {"returned", "raised"}) => ~lockFile']_vars

\* a caller was turned away while the other one, after a first row was saved,
\* holds the lock and is about to write
TurnedAwayWhileHeld ==
    /\ xlPc[1] = "raised" /\ xlExc[1] = "locked"
    /\ xlPc[2] = "write"
    /\ workbook.rows = 1

====
